---- MODULE Spec2Model ----
(***************************************************************************)
(* Client-side prediction / server reconciliation of the hex-tile MMO.     *)
(*                                                                         *)
(* Units.  Pixel x is an integer number of pixels on the row r = 0 of the  *)
(* pointy-top grid (y = 0), where a tile is TILE_WIDTH = 42 px wide and a  *)
(* move of DEFAULT_SPEED * dt with dt = 0.05 s covers 6 px.  Times are in  *)
(* centiseconds, air_dz in hundredths of a layer, so that every float the  *)
(* code computes on this row is an exact integer here.  Python's None is   *)
(* NoneV (sequence numbers), NoneTid (client ids) and NoneT (air_time);    *)
(* Python's False, which the server passes as a sequence number, is        *)
(* FalseV.                                                                 *)
(***************************************************************************)
EXTENDS Integers, Sequences, FiniteSets, TLC

\* ------------------------------------------------------------------ bounds
MaxTries == 2
MaxTicks == 1
MaxTileTries == 1
JoinTries == 1
LeaveTries == 1
MaxDiscovers == 2
MaxEdits == 1
Seeds == {0, 1}
Centres == {<<0, 0, 0>>, <<2, -1, 0>>}
DogColumns == {<<0, 0>>}
MoveHexes == {-1, 0, 1} \X {0, 1}
MoveXs == {0, 21}
MoveDTs == {5, 20}
HxRange == 5
RoundRange == 12
RoundDen == 8
MaxPending == 3
MaxCasts == 2
SmallLen == 40
MaxFlushes == 2
MaxSends == 1
MaxFrames == 2
MaxRead == 1024
WireEvents == {1, 2}
Clients == {1, 2}
DTs == {20}
Keys == {"SPACE", "RIGHT", "LEFT"}

\* ------------------------------------------------------- program constants
DEFAULT_SPEED == 120
DEFAULT_VERTICAL == 120
DEFAULT_HEIGHT == 3
TILE_WIDTH == 42
TILE_SIZE == 24
ISO_NUM == 3
ISO_DEN == 4
TILE_RISE == 12
FLAG_NONE == 0
FLAG_SOLID == 1
TICK == 5
R == 5

NoneV == -2
FalseV == -3
NoneTid == 0
NoneT == -1
NoIter == -1

\* Session.py, line 9: OK = b'\x4f\x4b'.
OK == <<79, 75>>

\* ---------------------------------------------------------------- helpers
Abs(n) == IF n < 0 THEN -n ELSE n
Max(a, b) == IF a > b THEN a ELSE b
Floor100(a) == a \div 100
Ceil100(a) == -((-a) \div 100)

\* Python's round(): round half to even, of n / d with d > 0.
PyRound(n, d) ==
    LET q == n \div d
        r == n % d
    IN  IF 2 * r < d THEN q
        ELSE IF 2 * r > d THEN q + 1
        ELSE IF q % 2 = 0 THEN q ELSE q + 1

\* hex_round on the row r = 0: aq = x / TILE_WIDTH, ar = 0.  q and s round
\* to opposite values, so q_diff = s_diff, r_diff = 0 and the else branch
\* (s = -q-r) is taken: q is the independently rounded value.
hex_round(x) == PyRound(x, TILE_WIDTH)

\* Px.into_hx and Hx.into_px on the row r = 0 (z passes through).
into_hx(x) == hex_round(x)
into_px(q) == TILE_WIDTH * q

\* Python's == between a pending sequence number and a received one:
\* False == 0 is true.
PyNum(s) == IF s = FalseV THEN 0 ELSE s
PyEq(i, s) == PyNum(i) = PyNum(s)

\* cos of atan2(0, dx): atan2(0, 0) = 0, atan2(0, dx < 0) = pi.
CosAtan2(dx) == IF dx < 0 THEN -1 ELSE 1

\* speed * dt in pixels (speed in px/s, dt in centiseconds).
Travel(dt) == (DEFAULT_SPEED * dt) \div 100

\* collision.collide of the actor footprint (flat hexagon of size 7, half
\* width 12/sqrt(3)) centred at x with a tile footprint (pointy hexagon of
\* half width 21) centred at cx, both on the row y = 0:
\* |x - cx| < 21 + 12/sqrt(3).
collide(x, cx) ==
    LET d == Abs(x - cx)
    IN  d <= 21 \/ 3 * (d - 21) * (d - 21) < 144

\* ------------------------------------------------------------------ records
\* Actor.State (the fields the state setter copies; height, speed and
\* vertical keep their defaults).
NewActor(id, x, z) ==
    [id |-> id, heading |-> 0, air_dz |-> 0, air_time |-> NoneT, x |-> x, z |-> z]

NoActor == [id |-> NoneTid, heading |-> 0, air_dz |-> 0, air_time |-> NoneT, x |-> 0, z |-> 0]
NoTile == [typ |-> "none", flags |-> FLAG_NONE]
NoHx == <<0, 0>>
NoData == << >>
NoCall == [op |-> "none"]

\* Asset.Factory: the flags of an asset type.
AssetFlags(typ) == IF typ = "decorators" THEN FLAG_NONE ELSE FLAG_SOLID

\* Events (one record shape; dt0 is a history field: the dt the event was
\* created with, which no handler reads).
ActorMoveEvent(a, dt) ==
    [event |-> "move_actor", actor |-> a, dt |-> dt, dt0 |-> dt,
     hx |-> NoHx, tile |-> NoTile, tid |-> NoneTid, data |-> NoData]
ActorLoadEvent(id, x, z) ==
    [event |-> "load_actor", actor |-> NewActor(id, x, z), dt |-> 0, dt0 |-> 0,
     hx |-> NoHx, tile |-> NoTile, tid |-> NoneTid, data |-> NoData]
ActorUnloadEvent(id) ==
    [event |-> "unload_actor", actor |-> NewActor(id, 0, 0), dt |-> 0, dt0 |-> 0,
     hx |-> NoHx, tile |-> NoTile, tid |-> NoneTid, data |-> NoData]
ConnectionInitEvent(t) ==
    [event |-> "init_connection", actor |-> NoActor, dt |-> 0, dt0 |-> 0,
     hx |-> NoHx, tile |-> NoTile, tid |-> t, data |-> NoData]
SceneLoadEvent(d) ==
    [event |-> "load_scene", actor |-> NoActor, dt |-> 0, dt0 |-> 0,
     hx |-> NoHx, tile |-> NoTile, tid |-> NoneTid, data |-> d]
TileChangeEvent(h, t) ==
    [event |-> "change_tile", actor |-> NoActor, dt |-> 0, dt0 |-> 0,
     hx |-> h, tile |-> t, tid |-> NoneTid, data |-> NoData]

Msg(t, e, s) == [tid |-> t, evt |-> e, seq |-> s]


\* ------------------------------------------------------------------- tiles
\* A tile map is a function from the occupied hexes <<q, z>> of row r = 0.
Solid(t, q, z) == <<q, z>> \in DOMAIN t /\ t[<<q, z>>].flags % 2 = FLAG_SOLID
Present(t, q, z) == <<q, z>> \in DOMAIN t

\* dt * speed / (TILE_RISE * 2), in hundredths of a layer.
Rise(dt) == (dt * DEFAULT_SPEED) \div (2 * TILE_RISE)

\* vertical * (TILE_RISE * 2) / speed, in centiseconds.
FallStart == (DEFAULT_VERTICAL * 2 * TILE_RISE) \div DEFAULT_SPEED

\* Lines 47-53: the x the step of dt along the heading leads to.
step_x(x, heading, dt) ==
    x + Travel(dt) * CosAtan2(into_px(into_hx(x) + heading) - x)

\* Lines 85-87: the first neighbour, in the order of NEIGHBORS, that has a
\* tile with a sprite in one of the layers the actor spans and whose
\* collider overlaps the actor's at nx (0 if none has).
first_overlap(t, hq, z, band, nx) ==
    LET Hit(n) == \E k \in 0..(DEFAULT_HEIGHT - 1) :
                     /\ Present(t, hq + n, z + k + 1 + band)
                     /\ collide(nx, into_px(hq + n))
    IN  IF Hit(1) THEN 1 ELSE IF Hit(-1) THEN -1 ELSE 0

\* The position after an overlap with anything takes the actor past it.
overlap_slide(x, z, hq, heading, first, dt, z3) ==
    <<x + Travel(dt) * CosAtan2(into_px(hq + heading) - into_px(hq + first)), z>>

\* Lines 88-93: the position <<x, z>> after an overlap with the neighbour
\* first: the step is cancelled if that is the heading target, and goes
\* away from the neighbour if not.
overlap(x, z, hq, heading, first, dt, z3) ==
    IF hq + heading = hq + first THEN <<x, z3>>
    ELSE <<x + Travel(dt) * CosAtan2(into_px(hq + heading) - into_px(hq + first)), z>>

\* try_move_actor that dispatches the event as the client resolved it.
try_move_actor_trusting(t, state, ea, dt) == ea

\* Scene.Impl.try_move_actor: the event's actor after the move is resolved
\* against the tile map t and the stored state of the actor.
try_move_actor(t, state, ea, dt) ==
    LET x == state.x
        hq == into_hx(x)
        nx0 == step_x(x, ea.heading, dt)
        nq == into_hx(nx0)
        a1 == IF state.air_time = NoneT /\ ea.air_time # 0
              THEN [ea EXCEPT !.air_time = NoneT, !.air_dz = 0] ELSE ea
        fl == Floor100(state.air_dz)
        step == state.air_time # NoneT /\ state.air_dz > 100
                    /\ Solid(t, nq, state.z + fl)
        z2 == IF step THEN state.z + fl ELSE state.z
        a2 == IF step THEN [a1 EXCEPT !.air_dz = state.air_dz - 100 * fl] ELSE a1
        scan == {k \in (fl + 1)..Ceil100(state.air_dz + Rise(dt)) : Solid(t, nq, z2 + k)}
        top == CHOOSE k \in scan : \A j \in scan : j <= k
        land == state.air_dz <= 0 /\ state.air_time # NoneT /\ scan # {}
        fall == state.air_dz <= 0 /\ state.air_time = NoneT /\ ~Solid(t, nq, z2)
        z3 == IF land THEN z2 + top ELSE z2
        a3 == IF land THEN [a2 EXCEPT !.air_dz = 0, !.air_time = NoneT]
              ELSE IF fall THEN [a2 EXCEPT !.air_time = FallStart, !.air_dz = 0]
              ELSE a2
        band == Max(0, Floor100(a3.air_dz))
        first == first_overlap(t, hq, state.z, band, nx0)
        at == overlap(x, state.z, hq, ea.heading, first, dt, z3)
    IN  IF first = 0 THEN [a3 EXCEPT !.x = nx0, !.z = z3]
        ELSE [a3 EXCEPT !.x = at[1], !.z = at[2]]


\* ------------------------------------------------------------------- state
VARIABLES
    incoming,   \* Server.incoming: the inbound queue shared by all sessions
    sessions,   \* Server.sessions: the ids of the registered sessions
    outgoing,   \* Session.outgoing of each server-side session
    seq,        \* Impl.seq of the server's state manager
    pcs,        \* Scene.Impl.pcs of the server: id -> Actor.State
    tiles,      \* Scene.Impl.tiles of the server
    ended,      \* the server-side sessions whose do_exit is set
    raised,     \* the exception that has left the server's tick loop, or "none"
    unloaded,   \* history: the ids the tick loop has broadcast an unload for
    iter,       \* the size of the session table that the iterator of the tick's
                \* loop over it has recorded, or NoIter outside that loop
    gen,        \* the seed of the scene's generator
    found,      \* history: the last discover_tile try handled: how many were, its
                \* centre, the events it dispatched and the tile map it left
    edit,       \* history: the change_tile tries EditTile has handled: how many,
                \* and the last one
    call,       \* the last call of a function studied on its own: its name,
                \* its arguments and what it returned
    tid,        \* StateManager.tid of each client
    cseq,       \* StateManager.seq of each client
    evt_deque,  \* StateManager.evt_deque of each client
    cpcs,       \* Scene.pcs of each client
    ctiles,     \* Scene.tiles of each client
    cin,        \* Session.incoming of each client
    cout,       \* Session.outgoing of each client
    turn,       \* which side of each connection has read OK and may send
    do_log,     \* history: the do handlers dispatched by the last on_do of each client
    acked,      \* history: the last non-null own sequence number each client received
    last,       \* history: the client id and sequence number of the last tuple each client handled
    left,       \* the tries, server ticks and tile changes the run may still take
    pc,         \* where a session thread is in Session.sync: "recv", "send" or "done"
    rest,       \* Session.sync's rest: the bytes read and not yet parsed
    do_exit,    \* Session.do_exit
    sess_in,    \* Session.incoming of that session: the tuples decoded
    sess_out,   \* Session.outgoing of that session: the tuples to send
    rx,         \* the bytes the peer has written and sock.recv has not returned yet
    tx,         \* the bytes the session has written since the peer's last flush
    peer,       \* the peer: whether it is open, has the turn, its flushes left,
                \* whether it is in its send loop and the payloads it has to write
    oks,        \* history: how many sentinels the peer and the session have written
    sent,       \* history: the tuples the peer has enqueued and flushed
    drained,    \* history: the tuples the tick loop has taken with Session.recv
    flush       \* history: the bytes of the peer's last flush, rest and the
                \* number of tuples received when it was written, and how
                \* many of its payloads do not decode

vars == <<incoming, sessions, outgoing, seq, pcs, tiles, ended, raised, unloaded, iter,
          gen, found, edit, call,
          tid, cseq, evt_deque,
          cpcs, ctiles, cin, cout, turn, do_log, acked, last, left,
          pc, rest, do_exit, sess_in, sess_out, rx, tx, peer, oks, sent, drained, flush>>

endVars == <<ended, raised, unloaded, iter>>
genVars == <<gen, found, edit, call>>
srvVars == <<incoming, sessions, outgoing, seq, pcs, tiles, endVars, genVars>>
cliVars == <<tid, cseq, evt_deque, cpcs, ctiles, do_log, acked, last>>
wireVars == <<pc, rest, do_exit, sess_in, sess_out, rx, tx, peer, oks, sent, drained, flush>>
gameVars == <<srvVars, cliVars, cin, cout, turn, left>>

\* The thread ident of a client's own session thread, which Session.sync
\* substitutes for a null client id in what it receives.
ClientThread(c) == 10 + c

\* The ground the server starts with: a SOLID tile in the columns 0 and 1
\* of layer 0.
Ground == [h \in {<<0, 0>>, <<1, 0>>} |-> [typ |-> "biomes", flags |-> FLAG_SOLID]]

EmptyMap == [h \in {} |-> NoTile]
EmptyActors == [i \in {} |-> NoActor]

\* The session thread before its first read: nothing read, nothing
\* written, and the peer about to flush (Server.accept and Session.begin
\* send first).
SessionStarted ==
    /\ pc = "recv"
    /\ rest = << >>
    /\ do_exit = FALSE
    /\ sess_in = << >>
    /\ sess_out = << >>
    /\ rx = << >>
    /\ tx = << >>
    /\ peer = [open |-> TRUE, turn |-> TRUE, flushes |-> MaxFlushes, sends |-> MaxSends,
               sending |-> FALSE, out |-> << >>]
    /\ oks = [peer |-> 0, self |-> 0]
    /\ sent = << >>
    /\ drained = << >>
    /\ flush = [bytes |-> << >>, rest |-> << >>, mark |-> 0, bad |-> 0]

\* Construction: the server has bound its socket and loaded its scene, each
\* client has built its session and begin() has sent the init_connection
\* try (sync, so with a null sequence number).  t says which clients
\* connect, l what the run may take, m is the tile map loaded and g the
\* generator's seed.
ConstructedOn(t, l, m, g) ==
    /\ incoming = << >>
    /\ sessions = {}
    /\ outgoing = [c \in Clients |-> << >>]
    /\ seq = -1
    /\ pcs = EmptyActors
    /\ tiles = m
    /\ gen = g
    /\ found = [n |-> 0, c |-> <<0, 0, 0>>, events |-> << >>, tiles |-> m]
    /\ edit = [n |-> 0, evt |-> TileChangeEvent(<<0, 0, 0>>, NoTile)]
    /\ call = NoCall
    /\ ended = {}
    /\ raised = "none"
    /\ unloaded = << >>
    /\ iter = NoIter
    /\ tid = [c \in Clients |-> NoneTid]
    /\ cseq = [c \in Clients |-> -1]
    /\ evt_deque = [c \in Clients |-> << >>]
    /\ cpcs = [c \in Clients |-> EmptyActors]
    /\ ctiles = [c \in Clients |-> EmptyMap]
    /\ cin = [c \in Clients |-> << >>]
    /\ cout = [c \in Clients |-> <<Msg(NoneTid, ConnectionInitEvent(NoneTid), NoneV)>>]
    /\ turn = t
    /\ do_log = [c \in Clients |-> << >>]
    /\ acked = [c \in Clients |-> -1]
    /\ last = [c \in Clients |-> [tid |-> NoneTid, seq |-> NoneV]]
    /\ left = l
    /\ SessionStarted

\* The runs in which actors move start on the ground.
Constructed(t, l) == ConstructedOn(t, l, Ground, 0)

\* One client connects.
Init ==
    Constructed([c \in Clients |-> IF c = 1 THEN "closed" ELSE "absent"],
                [tries |-> MaxTries, ticks |-> MaxTicks, tiles |-> MaxTileTries])

\* ---------------------------------------------------------------- sessions
\* Server.accept: greet with OK and register the session under its thread
\* ident (here the client's number).  The greeting gives the client the
\* turn to send.
Accept(c) ==
    /\ c \notin sessions
    /\ turn[c] = "closed"
    /\ sessions' = sessions \cup {c}
    /\ turn' = [turn EXCEPT ![c] = "client"]
    /\ UNCHANGED <<incoming, outgoing, seq, pcs, tiles, endVars, cliVars, cin, cout, left, wireVars, genVars>>

\* Session.sync, lines 41-60: a framed tuple is appended to the inbound
\* queue, a null client id replaced by self.tid.
Deliver(m, self) == Msg(IF m.tid = NoneTid THEN self ELSE m.tid, m.evt, m.seq)

Delivered(b, self) == [k \in 1..Len(b) |-> Deliver(b[k], self)]

\* One batch of the stop-and-wait exchange, client to server: the client's
\* session thread, having read OK, writes out its outbound queue and OK
\* (Session.sync, lines 61-75), and the server's session thread appends the
\* tuples to the shared inbound queue.
ClientBatch(c) ==
    /\ turn[c] = "client"
    /\ incoming' = incoming \o Delivered(cout[c], c)
    /\ cout' = [cout EXCEPT ![c] = << >>]
    /\ turn' = [turn EXCEPT ![c] = "server"]
    /\ UNCHANGED <<sessions, outgoing, seq, pcs, tiles, endVars, cliVars, cin, left, wireVars, genVars>>

\* The batch in the other direction.
ServerBatch(t) ==
    /\ turn[t] = "server"
    /\ cin' = [cin EXCEPT ![t] = @ \o Delivered(outgoing[t], ClientThread(t))]
    /\ outgoing' = [outgoing EXCEPT ![t] = << >>]
    /\ turn' = [turn EXCEPT ![t] = "client"]
    /\ UNCHANGED <<incoming, sessions, seq, pcs, tiles, endVars, cliVars, cout, left, wireVars, genVars>>

\* ------------------------------------------------------ scene do handlers
\* The state setter without the copy of air_time.
SetState_noair(old, v) ==
    [old EXCEPT !.x = v.x, !.z = v.z, !.heading = v.heading, !.air_dz = v.air_dz]

\* Actor.Impl.state setter: px, heading, air_dz and air_time are copied.
SetState(old, v) ==
    [old EXCEPT !.x = v.x, !.z = v.z, !.heading = v.heading,
                !.air_dz = v.air_dz, !.air_time = v.air_time]

\* Scene.Impl.do_move_actor: an unknown actor is logged and skipped.
do_move_actor(actors, evt) ==
    IF evt.actor.id \in DOMAIN actors
    THEN [actors EXCEPT ![evt.actor.id] = SetState(@, evt.actor)]
    ELSE actors

\* Scene.Impl.do_load_actor: a new actor object is created at the event's
\* position and stored under its id, replacing what was there.
do_load_actor(actors, evt) ==
    (evt.actor.id :> NewActor(evt.actor.id, evt.actor.x, evt.actor.z)) @@ actors

\* Scene.Impl.do_unload_actor: the actor is deleted; an unknown one is
\* logged and skipped.
do_unload_actor(actors, evt) ==
    [i \in DOMAIN actors \ {evt.actor.id} |-> actors[i]]

\* Scene.Impl.do_change_tile: the old tile is deleted and, unless the event
\* carries no tile, a new one is created from the event's sprite type.
do_change_tile(t, evt) ==
    LET others == [h \in DOMAIN t \ {evt.hx} |-> t[h]]
    IN  IF evt.tile = NoTile THEN others
        ELSE (evt.hx :> [typ |-> evt.tile.typ, flags |-> AssetFlags(evt.tile.typ)]) @@ others

\* do_load_scene with the flags of the snapshot's records dropped, as
\* do_change_tile drops those of its event.
do_load_scene_noflags(t, evt) ==
    [h \in DOMAIN evt.data |-> [typ |-> evt.data[h].typ, flags |-> AssetFlags(evt.data[h].typ)]] @@ t

\* StateManager.do_load_scene: every tile of the snapshot is stored.
do_load_scene(t, evt) == evt.data @@ t

\* ------------------------------------------------------------------ server
\* The part of the server a handler works on.
ServerState == [pcs |-> pcs, tiles |-> tiles, out |-> outgoing]

\* on_send with the sequence number withheld from the sender too.
on_send_null(out, t, evt, s, broadcast) ==
    IF broadcast
    THEN [i \in Clients |->
            IF i \in sessions THEN Append(out[i], Msg(t, evt, NoneV)) ELSE out[i]]
    ELSE [out EXCEPT ![t] = Append(@, Msg(t, evt, s))]

\* Server.on_send.
on_send(out, t, evt, s, broadcast) ==
    IF broadcast
    THEN [i \in Clients |->
            IF i \in sessions
            THEN Append(out[i], Msg(t, evt, IF i = t THEN s ELSE NoneV))
            ELSE out[i]]
    ELSE [out EXCEPT ![t] = Append(@, Msg(t, evt, s))]

\* The do_ handler the server's scene has for an event.
server_do(st, evt) ==
    CASE evt.event = "move_actor" -> [st EXCEPT !.pcs = do_move_actor(@, evt)]
      [] evt.event = "load_actor" -> [st EXCEPT !.pcs = do_load_actor(@, evt)]
      [] evt.event = "unload_actor" -> [st EXCEPT !.pcs = do_unload_actor(@, evt)]
      [] evt.event = "change_tile" -> [st EXCEPT !.tiles = do_change_tile(@, evt)]
      [] OTHER -> st

\* Impl.on_do: do the event, then send it with the sequence number of the
\* last try.
Impl_on_do(st, t, evt, s, broadcast) ==
    LET done == server_do(st, evt)
    IN  [done EXCEPT !.out = on_send(@, t, evt, s, broadcast)]

\* The ids of an actor table in iteration order.
RECURSIVE Ids(_)
Ids(S) ==
    IF S = {} THEN << >>
    ELSE LET m == CHOOSE i \in S : \A j \in S : i <= j
         IN  <<m>> \o Ids(S \ {m})

\* Impl.try_load_scene, line 39: one load_actor per existing actor, done on
\* the server and sent to the joining client only.
RECURSIVE LoadActors(_, _, _, _)
LoadActors(st, t, s, ids) ==
    IF ids = << >> THEN st
    ELSE LET a == st.pcs[Head(ids)]
         IN  LoadActors(Impl_on_do(st, t, ActorLoadEvent(a.id, a.x, a.z), s, FALSE),
                        t, s, Tail(ids))

\* try_init_connection with the reply broadcast.
try_init_connection_all(st, t, evt, s) ==
    Impl_on_do(st, t, [evt EXCEPT !.tid = t], s, TRUE)

\* Impl.try_init_connection.
try_init_connection(st, t, evt, s) ==
    Impl_on_do(st, t, [evt EXCEPT !.tid = t], s, FALSE)

\* Impl.try_load_scene.
try_load_scene(st, t, evt, s) ==
    LET st1 == Impl_on_do(st, t, [evt EXCEPT !.data = st.tiles], s, FALSE)
        st2 == LoadActors(st1, t, s, Ids(DOMAIN st1.pcs))
    IN  Impl_on_do(st2, t, ActorLoadEvent(t, 0, 0), s, TRUE)

\* Scene.Impl.try_move_actor followed by its on_do.
server_try_move_actor(st, t, evt, s) ==
    LET a == try_move_actor(st.tiles, st.pcs[evt.actor.id], evt.actor, evt.dt)
    IN  Impl_on_do(st, t, [evt EXCEPT !.actor = a], s, TRUE)

\* Scene.Impl.try_change_tile.
try_change_tile(st, t, evt, s) == Impl_on_do(st, t, evt, s, TRUE)

\* Impl.on_try: remember the sequence number, then dispatch try_<event>.
Impl_on_try(st, t, evt, s) ==
    CASE evt.event = "init_connection" -> try_init_connection(st, t, evt, s)
      [] evt.event = "load_scene" -> try_load_scene(st, t, evt, s)
      [] evt.event = "move_actor" -> server_try_move_actor(st, t, evt, s)
      [] evt.event = "change_tile" -> try_change_tile(st, t, evt, s)
      [] OTHER -> st

\* Whether on_try of the tuple raises KeyError: Scene.Impl.try_move_actor,
\* line 43, indexes the actor table with the event's id before anything
\* else, and Server.on_send, line 40, indexes the session table with the
\* client id of a reply that is not broadcast (the replies to
\* init_connection and load_scene; neither handler has changed the scene
\* by then).
Raises(m) ==
    \/ m.evt.event = "move_actor" /\ m.evt.actor.id \notin DOMAIN pcs
    \/ m.evt.event \in {"init_connection", "load_scene"} /\ m.tid \notin sessions

\* Server.update: one tuple of the inbound queue goes through on_try.  An
\* exception leaves on_update, and the tick loop with it.
ServerUpdate ==
    /\ raised = "none"
    /\ incoming # << >>
    /\ LET m == Head(incoming)
           st == Impl_on_try(ServerState, m.tid, m.evt, m.seq)
       IN  /\ seq' = m.seq
           /\ IF Raises(m)
              THEN raised' = "KeyError" /\ UNCHANGED <<pcs, tiles, outgoing>>
              ELSE /\ raised' = raised
                   /\ pcs' = st.pcs
                   /\ tiles' = st.tiles
                   /\ outgoing' = st.out
    /\ incoming' = Tail(incoming)
    /\ UNCHANGED <<sessions, ended, unloaded, iter, cliVars, cin, cout, turn, left, wireVars, genVars>>

\* Actor.Impl.update of an airborne actor: the copy of its state that goes
\* into the try.
Airborne(a, dt) ==
    LET t == a.air_time + dt
    IN  IF t * DEFAULT_SPEED > DEFAULT_VERTICAL * 2 * TILE_RISE
        THEN [a EXCEPT !.air_time = t, !.air_dz = @ - Rise(dt)]
        ELSE [a EXCEPT !.air_time = t, !.air_dz = Rise(t)]

\* on_update, line 83: every actor is updated; an airborne one dispatches
\* on_try(id, move, False), so that Impl.seq becomes False.
RECURSIVE UpdateActors(_, _)
UpdateActors(r, ids) ==
    IF ids = << >> THEN r
    ELSE LET a == r.st.pcs[Head(ids)]
         IN  IF a.air_time = NoneT THEN UpdateActors(r, Tail(ids))
             ELSE UpdateActors(
                    [st |-> server_try_move_actor(r.st, a.id,
                                ActorMoveEvent(Airborne(a, TICK), TICK), FalseV),
                     seq |-> FalseV],
                    Tail(ids))

ServerTick ==
    /\ raised = "none"
    /\ left.ticks > 0
    /\ \E i \in DOMAIN pcs : pcs[i].air_time # NoneT
    /\ LET r == UpdateActors([st |-> ServerState, seq |-> seq], Ids(DOMAIN pcs))
       IN  /\ seq' = r.seq
           /\ pcs' = r.st.pcs
           /\ tiles' = r.st.tiles
           /\ outgoing' = r.st.out
    /\ left' = [left EXCEPT !.ticks = @ - 1]
    /\ UNCHANGED <<incoming, sessions, endVars, cliVars, cin, cout, turn, wireVars, genVars>>

\* Session.sync, lines 29-37, in the session thread of the server: recv
\* raises or returns nothing, do_exit is set and the thread returns.
SessionEnd(c) ==
    /\ c \in sessions
    /\ c \notin ended
    /\ ended' = ended \cup {c}
    /\ turn' = [turn EXCEPT ![c] = "ended"]
    /\ UNCHANGED <<incoming, sessions, outgoing, seq, pcs, tiles, raised, unloaded, iter,
                   cliVars, cin, cout, left, wireVars, genVars>>

\* on_update, lines 78-82, for the session i whose do_exit is set: the
\* unload of its actor is done and broadcast (with a null client id, so
\* with a null sequence number for every session), the session is deleted
\* and the loop is left.
ServerPoll(i) ==
    /\ i \in sessions
    /\ i \in ended
    /\ LET st == Impl_on_do(ServerState, NoneTid, ActorUnloadEvent(i), seq, TRUE)
       IN  /\ pcs' = st.pcs
           /\ tiles' = st.tiles
           /\ outgoing' = st.out
    /\ sessions' = sessions \ {i}
    /\ unloaded' = Append(unloaded, i)
    /\ iter' = NoIter
    /\ UNCHANGED <<incoming, seq, ended, raised, cliVars, cin, cout, turn, left, wireVars, genVars>>

\* on_update, line 77: the for statement takes an iterator of
\* server.sessions.items(), which records the size of the dict.
PollBegin ==
    /\ raised = "none"
    /\ iter = NoIter
    /\ iter' = Cardinality(sessions)
    /\ UNCHANGED <<incoming, sessions, outgoing, seq, pcs, tiles, ended, raised, unloaded,
                   cliVars, cin, cout, turn, left, wireVars, genVars>>

\* on_update, lines 77-82: the iterator is advanced.  A dict whose size
\* is no longer the recorded one makes it raise RuntimeError (Server.accept
\* inserts into the dict from its own thread, line 34, under no lock);
\* otherwise the loop reaches the first session whose do_exit is set, or
\* its end.
PollNext ==
    /\ raised = "none"
    /\ iter # NoIter
    /\ IF Cardinality(sessions) # iter
       THEN /\ raised' = "RuntimeError"
            /\ iter' = NoIter
            /\ UNCHANGED <<incoming, sessions, outgoing, seq, pcs, tiles, ended, unloaded,
                           cliVars, cin, cout, turn, left, wireVars, genVars>>
       ELSE IF sessions \cap ended # {}
       THEN \E i \in sessions : ServerPoll(i)
       ELSE /\ iter' = NoIter
            /\ UNCHANGED <<incoming, sessions, outgoing, seq, pcs, tiles, ended, raised,
                           unloaded, cliVars, cin, cout, turn, left, wireVars, genVars>>

\* ------------------------------------------------------------------ client
\* The part of a client a handler works on; log collects the do handlers
\* dispatched.
ClientState(c) ==
    [pcs |-> cpcs[c], tiles |-> ctiles[c], tid |-> tid[c], out |-> cout[c],
     log |-> << >>]

\* Session.on_send.
Session_on_send(out, t, evt, s) == Append(out, Msg(t, evt, s))

\* The name and the dt of each event of a log of dispatched events.
Dispatched(log) == [i \in 1..Len(log) |-> [event |-> log[i].event, dt |-> log[i].dt]]

\* dispatch_event("do_" + evt.event, tid, evt) on the client: the handlers
\* of the scene and of the state manager.  do_init_connection stores the
\* assigned id and sends the load_scene try (sync).
client_do(st, evt) ==
    LET logged == [st EXCEPT !.log = Append(@, evt)]
    IN  CASE evt.event = "move_actor" -> [logged EXCEPT !.pcs = do_move_actor(@, evt)]
          [] evt.event = "load_actor" -> [logged EXCEPT !.pcs = do_load_actor(@, evt)]
          [] evt.event = "unload_actor" -> [logged EXCEPT !.pcs = do_unload_actor(@, evt)]
          [] evt.event = "change_tile" -> [logged EXCEPT !.tiles = do_change_tile(@, evt)]
          [] evt.event = "load_scene" -> [logged EXCEPT !.tiles = do_load_scene(@, evt)]
          [] evt.event = "init_connection" ->
                [logged EXCEPT !.tid = evt.tid,
                               !.out = Session_on_send(@, evt.tid, SceneLoadEvent(NoData), NoneV)]
          [] OTHER -> logged

\* StateManager.on_do, lines 89-92: pop up to and including seq.
RECURSIVE PopTo(_, _)
PopTo(q, s) ==
    IF q = << >> THEN << >>
    ELSE IF PyEq(Head(q).seq, s) THEN Tail(q)
    ELSE PopTo(Tail(q), s)

\* Line 96 without its assignment.
ZeroDt_keep(e) == e

\* Line 96: it.dt = 0 on a pending move.
ZeroDt(e) == IF e.event = "move_actor" THEN [e EXCEPT !.dt = 0] ELSE e

\* Lines 95-97: every pending event is done again.
RECURSIVE Replay(_, _)
Replay(st, q) ==
    IF q = << >> THEN st
    ELSE Replay(client_do(st, ZeroDt(Head(q).evt)), Tail(q))

\* A pending event and the tuple waiting in the outbound queue are the
\* same object: zeroing the dt of the one zeroes the other.
Aliased(out, q) ==
    [k \in 1..Len(out) |->
        IF \E i \in 1..Len(q) : q[i].seq = out[k].seq
        THEN [out[k] EXCEPT !.evt = ZeroDt(@)]
        ELSE out[k]]

\* Whether on_do takes the acknowledgment branch.
IsAck(self_tid, t, s) == s # NoneV /\ t = self_tid

\* on_do with the replay loop outside the acknowledgment branch.
StateManager_on_do_replay(st, q, t, evt, s) ==
    IF IsAck(st.tid, t, s)
    THEN LET pending == PopTo(q, s)
             st1 == client_do(st, [evt EXCEPT !.dt = 0])
             st2 == Replay(st1, pending)
         IN  [st |-> [st2 EXCEPT !.out = Aliased(@, pending)],
              q |-> [i \in 1..Len(pending) |-> [pending[i] EXCEPT !.evt = ZeroDt(@)]]]
    ELSE [st |-> Replay(client_do(st, evt), q), q |-> q]

\* StateManager.on_do: the state after, with the pending queue.
StateManager_on_do(st, q, t, evt, s) ==
    IF IsAck(st.tid, t, s)
    THEN LET pending == PopTo(q, s)
             st1 == client_do(st, [evt EXCEPT !.dt = 0])
             st2 == Replay(st1, pending)
         IN  [st |-> [st2 EXCEPT !.out = Aliased(@, pending)],
              q |-> [i \in 1..Len(pending) |-> [pending[i] EXCEPT !.evt = ZeroDt(@)]]]
    ELSE [st |-> client_do(st, evt), q |-> q]

\* run.py on_update, lines 69-70: one received tuple goes through on_do.
ClientDo(c) ==
    /\ cin[c] # << >>
    /\ LET m == Head(cin[c])
           r == StateManager_on_do(ClientState(c), evt_deque[c], m.tid, m.evt, m.seq)
       IN  /\ cpcs' = [cpcs EXCEPT ![c] = r.st.pcs]
           /\ ctiles' = [ctiles EXCEPT ![c] = r.st.tiles]
           /\ tid' = [tid EXCEPT ![c] = r.st.tid]
           /\ cout' = [cout EXCEPT ![c] = r.st.out]
           /\ do_log' = [do_log EXCEPT ![c] = Dispatched(r.st.log)]
           /\ evt_deque' = [evt_deque EXCEPT ![c] = r.q]
           /\ acked' = [acked EXCEPT ![c] =
                            IF IsAck(tid[c], m.tid, m.seq) THEN PyNum(m.seq) ELSE @]
           /\ last' = [last EXCEPT ![c] = [tid |-> m.tid, seq |-> m.seq]]
    /\ cin' = [cin EXCEPT ![c] = Tail(@)]
    /\ UNCHANGED <<srvVars, cseq, turn, left, wireVars>>

\* on_try, line 103, without the increment.
next_seq_stuck(n) == n

\* on_try, line 103: self.seq += 1.
next_seq(n) == n + 1

\* Actor.update of a grounded actor: the copy of its state that goes into
\* the try, for the key that is down.
KeyState(a, key) ==
    CASE key = "SPACE" -> [a EXCEPT !.air_time = 0]
      [] key = "RIGHT" -> [a EXCEPT !.heading = 1]
      [] key = "LEFT" -> [a EXCEPT !.heading = -1]

\* on_try with the tuple sent under seq = None whatever sync is.
StateManager_on_try_null(st, q, n, t, evt) ==
    LET a == try_move_actor(st.tiles, st.pcs[evt.actor.id], evt.actor, evt.dt)
        e == [evt EXCEPT !.actor = a]
        st1 == client_do(st, e)
    IN  [st |-> [st1 EXCEPT !.out = Session_on_send(@, t, e, NoneV)],
         q |-> Append(q, [seq |-> n, evt |-> e])]

\* StateManager.on_try with sync = False, for a move: the event gets the
\* next sequence number and is queued as pending, the scene resolves it
\* and does it at once, and the tuple is queued for sending.
StateManager_on_try(st, q, n, t, evt) ==
    LET a == try_move_actor(st.tiles, st.pcs[evt.actor.id], evt.actor, evt.dt)
        e == [evt EXCEPT !.actor = a]
        st1 == client_do(st, e)
    IN  [st |-> [st1 EXCEPT !.out = Session_on_send(@, t, e, n)],
         q |-> Append(q, [seq |-> n, evt |-> e])]

\* run.py on_update, lines 71-75: the client's own actor is updated.
ClientMove(c, key, dt) ==
    /\ tid[c] # NoneTid
    /\ tid[c] \in DOMAIN cpcs[c]
    /\ cpcs[c][tid[c]].air_time = NoneT
    /\ left.tries > 0
    /\ LET a == cpcs[c][tid[c]]
           r == StateManager_on_try(ClientState(c), evt_deque[c], next_seq(cseq[c]), a.id,
                                    ActorMoveEvent(KeyState(a, key), dt))
       IN  /\ cpcs' = [cpcs EXCEPT ![c] = r.st.pcs]
           /\ cout' = [cout EXCEPT ![c] = r.st.out]
           /\ evt_deque' = [evt_deque EXCEPT ![c] = r.q]
    /\ cseq' = [cseq EXCEPT ![c] = next_seq(@)]
    /\ left' = [left EXCEPT !.tries = @ - 1]
    /\ UNCHANGED <<srvVars, tid, ctiles, do_log, acked, last, cin, turn, wireVars>>

\* StateManager.on_try with sync = True, for a tile change: the event is
\* only sent.
TileInputs ==
    {TileChangeEvent(<<1, 0>>, NoTile),
     TileChangeEvent(<<1, 1>>, [typ |-> "decorators", flags |-> FLAG_NONE])}

ClientChangeTile(c, evt) ==
    /\ tid[c] # NoneTid
    /\ left.tiles > 0
    /\ cout' = [cout EXCEPT ![c] = Session_on_send(@, NoneTid, evt, NoneV)]
    /\ left' = [left EXCEPT !.tiles = @ - 1]
    /\ UNCHANGED <<srvVars, tid, cseq, evt_deque, cpcs, ctiles, do_log, acked, last, cin, turn, wireVars>>

\* ------------------------------------------------- the session thread
\* The thread of one session at the level of bytes.  A tuple (tid, evt,
\* seq) is identified by a number of WireEvents.

Min(a, b) == IF a < b THEN a ELSE b

\* s[a:b] of Python, for 0 <= a.
PySlice(s, a, b) == SubSeq(s, Min(a, Len(s)) + 1, Min(b, Len(s)))

\* ENCODER.dumps of a tuple: a header byte and a body byte.
dumps(e) == <<6, e>>

\* ENCODER.dumps of a tuple whose event carries data (a scene snapshot, a
\* string): the encoding is n bytes long, n >= 2.
dumps_long(e, n) == [k \in 1..n |-> IF k = 1 THEN 6 ELSE IF k = 2 THEN e ELSE 0]

\* Whether DECODER.loads accepts the bytes, and the tuple it returns.
Decodes(b) ==
    /\ Len(b) >= 2
    /\ b[1] = 6
    /\ b[2] \in WireEvents
    /\ \A k \in 3..Len(b) : b[k] = 0
loads(b) == b[2]

\* int.from_bytes(tok, 'big', signed=False) of the at most two bytes of a
\* slice.
from_bytes(tok) ==
    IF Len(tok) = 2 THEN 256 * tok[1] + tok[2]
    ELSE IF Len(tok) = 1 THEN tok[1]
    ELSE 0

\* len(it).to_bytes(2, 'big', signed=False).
to_bytes(n) == <<n \div 256, n % 256>>

\* Lines 70-71: the bytes of one frame.
Frame(e) == to_bytes(Len(dumps(e))) \o dumps(e)

RECURSIVE Frames(_)
Frames(q) == IF q = << >> THEN << >> ELSE Frame(Head(q)) \o Frames(Tail(q))

\* Lines 61-64: what is kept for the next read, and whether OK ended the
\* read loop.
Finish(it, i, acc) ==
    IF PySlice(it, i, i + 2) = OK
    THEN [events |-> acc, rest |-> PySlice(it, i + 2, Len(it)), ok |-> TRUE]
    ELSE [events |-> acc, rest |-> PySlice(it, i, Len(it)), ok |-> FALSE]

\* Lines 41-60: the frames taken from it, from offset i on.
RECURSIVE Parse(_, _, _)
Parse(it, i, acc) ==
    IF Len(it) - i <= 0 THEN Finish(it, i, acc)
    ELSE LET tok == PySlice(it, i, i + 2)
             sz == from_bytes(tok)
             body == PySlice(it, i + 2, i + 2 + sz)
         IN  IF tok = OK THEN Finish(it, i, acc)
             ELSE IF Len(it) - i < sz THEN Finish(it, i, acc)
             ELSE Parse(it, i + 2 + sz,
                        IF Decodes(body) THEN Append(acc, loads(body)) ELSE acc)

\* Lines 29-64, a read that returns n bytes: they are parsed after rest,
\* the tuples decoded are appended to the inbound queue, and OK ends the
\* read loop.
Recv(n) ==
    /\ pc = "recv"
    /\ n \in 1..Len(rx)
    /\ LET r == Parse(rest \o SubSeq(rx, 1, n), 0, << >>)
       IN  /\ sess_in' = sess_in \o r.events
           /\ rest' = r.rest
           /\ pc' = IF r.ok THEN "send" ELSE "recv"
    /\ rx' = SubSeq(rx, n + 1, Len(rx))
    /\ UNCHANGED <<do_exit, sess_out, tx, peer, sent, drained, flush, oks, gameVars>>

\* Lines 35-37: the peer has closed and recv returns no byte.
RecvClosed ==
    /\ pc = "recv"
    /\ rx = << >>
    /\ ~peer.open
    /\ do_exit' = TRUE
    /\ pc' = "done"
    /\ UNCHANGED <<rest, sess_in, sess_out, rx, tx, peer, sent, drained, flush, oks, gameVars>>

\* Lines 31-34: recv raises.
RecvError ==
    /\ pc = "recv"
    /\ do_exit' = TRUE
    /\ pc' = "done"
    /\ UNCHANGED <<rest, sess_in, sess_out, rx, tx, peer, sent, drained, flush, oks, gameVars>>

\* Lines 66-74: one tuple is popped and framed; the send of the length or
\* the send of the payload may raise, and then sync returns.
SendOutcomes == {"sent", "length raises", "payload raises"}

SendFrame(outcome) ==
    /\ pc = "send"
    /\ sess_out # << >>
    /\ sess_out' = Tail(sess_out)
    /\ LET it == dumps(Head(sess_out))
       IN  CASE outcome = "sent" -> tx' = tx \o to_bytes(Len(it)) \o it /\ pc' = pc
             [] outcome = "length raises" -> tx' = tx /\ pc' = "done"
             [] outcome = "payload raises" -> tx' = tx \o to_bytes(Len(it)) /\ pc' = "done"
    /\ UNCHANGED <<rest, do_exit, sess_in, rx, peer, sent, drained, flush, oks, gameVars>>

\* Line 75: OK is sent outside any try; if the send raises, the exception
\* ends the thread.
SendOK(raises) ==
    /\ pc = "send"
    /\ sess_out = << >>
    /\ IF raises
       THEN pc' = "done" /\ UNCHANGED <<tx, peer, oks>>
       ELSE /\ pc' = "recv"
            /\ tx' = tx \o OK
            /\ peer' = [peer EXCEPT !.turn = TRUE]
            /\ oks' = [oks EXCEPT !.self = @ + 1]
    /\ UNCHANGED <<rest, do_exit, sess_in, sess_out, rx, sent, drained, flush, gameVars>>

\* Session.on_send: the program enqueues a tuple.
SessionSend(e) ==
    /\ peer.sends > 0
    /\ sess_out' = Append(sess_out, e)
    /\ peer' = [peer EXCEPT !.sends = @ - 1]
    /\ UNCHANGED <<pc, rest, do_exit, sess_in, rx, tx, sent, drained, flush, oks, gameVars>>

\* Session.recv, as the tick loop uses it: the inbound queue is drained.
SessionRecv ==
    /\ sess_in # << >>
    /\ drained' = drained \o sess_in
    /\ sess_in' = << >>
    /\ UNCHANGED <<pc, rest, do_exit, sess_out, rx, tx, peer, sent, flush, oks, gameVars>>

\* The queues of at most n tuples.
RECURSIVE Queues(_)
Queues(n) ==
    IF n = 0 THEN {<< >>}
    ELSE LET shorter == Queues(n - 1)
         IN  shorter \cup {Append(q, e) : q \in {x \in shorter : Len(x) = n - 1}, e \in WireEvents}

\* The peer runs the same lines 66-75: having read OK it takes what the
\* session wrote, and writes its own queue q as frames, then OK.
PeerFlush(q) ==
    /\ peer.open
    /\ peer.turn
    /\ peer.flushes > 0
    /\ rx' = rx \o Frames(q) \o OK
    /\ tx' = << >>
    /\ sent' = sent \o q
    /\ flush' = [bytes |-> Frames(q) \o OK, rest |-> rest,
                 mark |-> Len(drained) + Len(sess_in), bad |-> 0]
    /\ peer' = [peer EXCEPT !.turn = FALSE, !.flushes = @ - 1]
    /\ oks' = [oks EXCEPT !.peer = @ + 1]
    /\ UNCHANGED <<pc, rest, do_exit, sess_in, sess_out, drained, gameVars>>

\* Payloads as a peer may frame them: the encodings of the tuples, and
\* bytes that DECODER.loads rejects.
Payloads == {dumps(e) : e \in WireEvents} \cup {<<7>>}

RECURSIVE RawFrames(_)
RawFrames(q) ==
    IF q = << >> THEN << >>
    ELSE to_bytes(Len(Head(q))) \o Head(q) \o RawFrames(Tail(q))

\* The sequences of at most n payloads of P.
RECURSIVE RawQueues(_, _)
RawQueues(P, n) ==
    IF n = 0 THEN {<< >>}
    ELSE LET shorter == RawQueues(P, n - 1)
         IN  shorter \cup {Append(q, b) : q \in {x \in shorter : Len(x) = n - 1}, b \in P}

\* The tuples of the payloads that decode, in order.
RECURSIVE Loaded(_)
Loaded(q) ==
    IF q = << >> THEN << >>
    ELSE (IF Decodes(Head(q)) THEN <<loads(Head(q))>> ELSE << >>) \o Loaded(Tail(q))

\* A peer that frames the payloads q, then OK: some of them may not decode.
PeerFlushRaw(q) ==
    /\ peer.open
    /\ peer.turn
    /\ peer.flushes > 0
    /\ rx' = rx \o RawFrames(q) \o OK
    /\ tx' = << >>
    /\ sent' = sent \o Loaded(q)
    /\ flush' = [bytes |-> RawFrames(q) \o OK, rest |-> rest,
                 mark |-> Len(drained) + Len(sess_in),
                 bad |-> Len(q) - Len(Loaded(q))]
    /\ peer' = [peer EXCEPT !.turn = FALSE, !.flushes = @ - 1]
    /\ oks' = [oks EXCEPT !.peer = @ + 1]
    /\ UNCHANGED <<pc, rest, do_exit, sess_in, sess_out, drained, gameVars>>

\* The peer's send loop step by step (lines 66-75 as the peer runs them):
\* having read OK it takes its queue q, ...
PeerBegin(q) ==
    /\ peer.open
    /\ peer.turn
    /\ peer.flushes > 0
    /\ ~peer.sending
    /\ tx' = << >>
    /\ sent' = sent \o Loaded(q)
    /\ flush' = [bytes |-> RawFrames(q) \o OK, rest |-> rest,
                 mark |-> Len(drained) + Len(sess_in),
                 bad |-> Len(q) - Len(Loaded(q))]
    /\ peer' = [peer EXCEPT !.turn = FALSE, !.flushes = @ - 1, !.sending = TRUE, !.out = q]
    /\ UNCHANGED <<pc, rest, do_exit, sess_in, sess_out, rx, drained, oks, gameVars>>

\* ... writes one frame of it (lines 67-71), ...
PeerSendFrame ==
    /\ peer.open
    /\ peer.sending
    /\ peer.out # << >>
    /\ rx' = rx \o RawFrames(<<Head(peer.out)>>)
    /\ peer' = [peer EXCEPT !.out = Tail(@)]
    /\ UNCHANGED <<pc, rest, do_exit, sess_in, sess_out, tx, sent, drained, flush, oks, gameVars>>

\* ... and, the queue empty, writes OK (line 75) and goes back to reading.
PeerSendOK ==
    /\ peer.open
    /\ peer.sending
    /\ peer.out = << >>
    /\ rx' = rx \o OK
    /\ peer' = [peer EXCEPT !.sending = FALSE]
    /\ oks' = [oks EXCEPT !.peer = @ + 1]
    /\ UNCHANGED <<pc, rest, do_exit, sess_in, sess_out, tx, sent, drained, flush, gameVars>>

\* The peer closes its socket.
PeerClose ==
    /\ peer.open
    /\ peer' = [peer EXCEPT !.open = FALSE]
    /\ UNCHANGED <<pc, rest, do_exit, sess_in, sess_out, rx, tx, sent, drained, flush, oks, gameVars>>

\* ---------------------------------------------------------- tile discovery
\* In the runs of this section the tile map is keyed by the hexes
\* <<q, r, z>> of the whole grid.

\* Hx.dist.
dist(a, b) ==
    (Abs(a[1] - b[1]) + Abs(a[1] + a[2] - b[1] - b[2]) + Abs(a[2] - b[2])) \div 2

\* Generator.elevation and Generator.vegetation: a value per column that
\* depends on the seed alone (the noise itself is not modelled; two
\* elevations, and a vegetation on either side of the threshold 66).
elevation(g, q, r) == (q + g * r) % 2
vegetation(g, q, r) == IF (q + 2 * r + g) % 3 = 0 THEN 67 ELSE 66

\* The inner loop from -R in every column.
r1_wide(q) == -R

\* Lines 115-116: the bounds of the inner loop.
r1(q) == Max(-R, -q - R)
r2(q) == Min(R, -q + R)

\* The load of the dog created at hex h (its id is null until
\* do_load_actor draws one; the record keeps the hex of its position).
DogLoadEvent(h) == [ActorLoadEvent(NoneTid, 0, h[3]) EXCEPT !.hx = h]

\* on_do(None, evt, True) in try_discover_tile: the tile change is done
\* and the event is sent to every session (Server.on_send, broadcast with
\* a null client id).
discover_do(st, evt) ==
    [tiles |-> IF evt.event = "change_tile" THEN do_change_tile(st.tiles, evt) ELSE st.tiles,
     events |-> Append(st.events, evt),
     out |-> on_send(st.out, NoneTid, evt, NoneV, TRUE)]

\* The hex of the offset <<q, r>> from the centre c, at the generator's
\* elevation (lines 118-120).
HexAt(g, c, q, r) == <<c[1] + q, c[2] + r, elevation(g, c[1] + q, c[2] + r)>>

\* Lines 122-131: the base tile is created at hex h, a dog is loaded if
\* random.randint hits 100 (dogs are the columns where it does), and a
\* decorator is created one layer up if the vegetation is above 66.
discover_hex(st, g, h, dogs) ==
    LET base == TileChangeEvent(h, [typ |-> "biomes", flags |-> FLAG_SOLID])
        deco == TileChangeEvent(<<h[1], h[2], h[3] + 1>>,
                                [typ |-> "decorators", flags |-> FLAG_NONE])
        st1 == discover_do(st, base)
        st2 == IF <<h[1], h[2]>> \in dogs THEN discover_do(st1, DogLoadEvent(h)) ELSE st1
    IN  IF vegetation(g, h[1], h[2]) > 66 THEN discover_do(st2, deco) ELSE st2

\* Lines 117-131: the inner loop, from r on; a hex that holds a tile is
\* passed over (line 121).
RECURSIVE discover_r(_, _, _, _, _, _)
discover_r(st, g, c, q, r, dogs) ==
    IF r > r2(q) THEN st
    ELSE IF HexAt(g, c, q, r) \in DOMAIN st.tiles
    THEN discover_r(st, g, c, q, r + 1, dogs)
    ELSE discover_r(discover_hex(st, g, HexAt(g, c, q, r), dogs), g, c, q, r + 1, dogs)

\* Scene.Impl.try_discover_tile: the outer loop, from q on.
RECURSIVE try_discover_tile(_, _, _, _, _)
try_discover_tile(st, g, c, q, dogs) ==
    IF q > R THEN st
    ELSE try_discover_tile(discover_r(st, g, c, q, r1(q), dogs), g, c, q + 1, dogs)

\* on_try(None, TileDiscoverEvent(c), None): server.py line 73, or
\* Server.update with the try of a client that looks at an empty hex.
Discover(c, dogs) ==
    /\ raised = "none"
    /\ left.discovers > 0
    /\ LET st == try_discover_tile([tiles |-> tiles, events |-> << >>, out |-> outgoing],
                                   gen, c, -R, dogs)
       IN  /\ tiles' = st.tiles
           /\ outgoing' = st.out
           /\ found' = [n |-> found.n + 1, c |-> c, events |-> st.events, tiles |-> st.tiles]
    /\ seq' = NoneV
    /\ left' = [left EXCEPT !.discovers = @ - 1]
    /\ UNCHANGED <<incoming, sessions, pcs, endVars, gen, edit, call, cliVars, cin, cout, turn, wireVars>>

\* The tile changes a client tries in these runs: a tile is removed from,
\* or put on, a hex of the column <<0, 0>>.  The record of an event is
\* the state of a tile, whose flags are the ones it was created with: the
\* asset's, or those of the saved map it was loaded from.
DiscoverEdits ==
    {TileChangeEvent(<<0, 0, z>>, t) :
        z \in 0..1, t \in {NoTile, [typ |-> "biomes", flags |-> FLAG_SOLID],
                                   [typ |-> "biomes", flags |-> FLAG_NONE]}}

\* Server.update with a change_tile try: try_change_tile and its on_do.
EditTile(evt) ==
    /\ raised = "none"
    /\ left.tiles > 0
    /\ tiles' = do_change_tile(tiles, evt)
    /\ outgoing' = on_send(outgoing, NoneTid, evt, NoneV, TRUE)
    /\ seq' = NoneV
    /\ left' = [left EXCEPT !.tiles = @ - 1]
    /\ edit' = [n |-> edit.n + 1, evt |-> evt]
    /\ UNCHANGED <<incoming, sessions, pcs, endVars, gen, found, call, cliVars, cin, cout, turn, wireVars>>

\* What pyglet.resource.file("default.0") and DECODER.loads give at
\* start-up: no file, bytes that do not decode, or the map saved (with no
\* tile, or with one).
StartFiles ==
    {[kind |-> "missing", data |-> EmptyMap],
     [kind |-> "undecodable", data |-> EmptyMap],
     [kind |-> "map", data |-> EmptyMap],
     [kind |-> "map", data |-> (<<0, 0, 0>> :> [typ |-> "biomes", flags |-> FLAG_NONE])]}

\* from_file that returns the map it has read even if it has no tile.
from_file_quiet(f) ==
    IF f.kind # "map" THEN [raised |-> TRUE, tiles |-> EmptyMap]
    ELSE [raised |-> FALSE, tiles |-> f.data]

\* Scene.Impl.from_file: the tiles of the saved map, created with the
\* flags saved; an exception if the file cannot be read or decoded, or
\* holds no tile.
from_file(f) ==
    IF f.kind # "map" \/ f.data = EmptyMap THEN [raised |-> TRUE, tiles |-> EmptyMap]
    ELSE [raised |-> FALSE, tiles |-> f.data]

\* Start-up of the server, lines 68-73: scene.tiles becomes what
\* from_file returns; if it raises, the exception is logged and a
\* discover_tile try for the origin goes through on_try.
StartUp(f, dogs) ==
    /\ call = NoCall
    /\ call' = [op |-> "from_file", file |-> f]
    /\ IF from_file(f).raised
       THEN LET st == try_discover_tile([tiles |-> tiles, events |-> << >>, out |-> outgoing],
                                        gen, <<0, 0, 0>>, -R, dogs)
            IN  /\ tiles' = st.tiles
                /\ outgoing' = st.out
                /\ seq' = NoneV
       ELSE /\ tiles' = from_file(f).tiles
            /\ UNCHANGED <<outgoing, seq>>
    /\ UNCHANGED <<incoming, sessions, pcs, endVars, gen, found, edit,
                   cliVars, cin, cout, turn, left, wireVars>>

\* ------------------------------------------------- functions on their own
\* The tile maps a move is resolved against: each hex of MoveHexes is
\* empty or holds a solid tile (biomes) or one that is not (decorators).
MoveMaps ==
    UNION {[H -> {[typ |-> "biomes", flags |-> FLAG_SOLID],
                  [typ |-> "decorators", flags |-> FLAG_NONE]}] : H \in SUBSET MoveHexes}

\* The stored states of the actor moved: on the ground, rising (air_dz is
\* Rise(air_time) before the apex) and falling (one tick after walking
\* off a ledge), at layer 0.
MoveStates ==
    {[NewActor(1, x, 0) EXCEPT !.air_time = a[1], !.air_dz = a[2]] :
        x \in MoveXs, a \in {<<NoneT, 0>>, <<10, Rise(10)>>, <<FallStart + TICK, -Rise(TICK)>>}}

\* The actor states a move_actor try carries: the heading of the keys, and
\* air_time 0 if the jump key is down (Actor.Impl.update).
MoveActors ==
    {[NewActor(1, 0, 0) EXCEPT !.heading = h, !.air_time = t] :
        h \in {-1, 0, 1}, t \in {NoneT, 0}}

\* Scene.Impl.try_move_actor called with the tile map t, the stored state
\* and the event (ea, dt); the actor state it dispatches in the do is kept.
MoveCall(t, state, ea, dt) ==
    /\ call' = [op |-> "try_move_actor", tiles |-> t, state |-> state, actor |-> ea,
                dt |-> dt, out |-> try_move_actor(t, state, ea, dt)]
    /\ UNCHANGED <<incoming, sessions, outgoing, seq, pcs, tiles, endVars, gen, found, edit,
                   cliVars, cin, cout, turn, left, wireVars>>

\* The moves a client has tried and not seen acknowledged: resolved states
\* of its actor, with the dt of the try or the 0 of an earlier replay.
ReplayEvents ==
    {[ActorMoveEvent([NewActor(1, x, 0) EXCEPT !.heading = 1], dt) EXCEPT !.dt0 = 20] :
        x \in {0, 21}, dt \in {0, 20}}

\* The pending queues of a client: up to MaxPending entries numbered one
\* after the other (on_try, lines 103-105).
ReplayQueues ==
    UNION {{[i \in 1..n |-> [seq |-> first + i - 1, evt |-> f[i]]] :
                f \in [1..n -> ReplayEvents], first \in {0, 1}} : n \in 0..MaxPending}

\* The tuples a client receives: a do of its own actor's move or of a tile
\* change, under its own id or another one, numbered or not.
ReplayMsgs ==
    {Msg(t, e, s) : t \in {1, 2},
                    e \in {ActorMoveEvent([NewActor(1, 42, 0) EXCEPT !.heading = 1], 20),
                           TileChangeEvent(<<1, 0>>, NoTile)},
                    s \in {NoneV, FalseV} \cup (0..MaxPending)}

\* StateManager.on_do on a client with id 1 whose scene holds its actor:
\* the events dispatched to the do handlers and the queue left are kept.
DoCall(q, m) ==
    /\ LET st == [pcs |-> (1 :> NewActor(1, 0, 0)), tiles |-> EmptyMap, tid |-> 1,
                  out |-> << >>, log |-> << >>]
           r == StateManager_on_do(st, q, m.tid, m.evt, m.seq)
       IN  call' = [op |-> "on_do", q |-> q, msg |-> m, log |-> r.st.log, after |-> r.q]
    /\ UNCHANGED <<incoming, sessions, outgoing, seq, pcs, tiles, endVars, gen, found, edit,
                   cliVars, cin, cout, turn, left, wireVars>>

\* HxPx on the whole grid, in exact arithmetic.  A fraction is a numerator
\* over a denominator d that the caller fixes; a pixel position on a hex
\* centre has whole coordinates (the code computes in floats, whose error
\* at these sizes is far below the distance of a hex centre from a
\* rounding boundary).

\* ISO_SCALE * tile_size: the height unit of into_px and into_hx.
IsoSize == (ISO_NUM * TILE_SIZE) \div ISO_DEN

\* The denominator of the fractional hex coordinates of a whole pixel.
HexDen == 3 * IsoSize * TILE_WIDTH

\* hex_round that rounds every axis on its own.
hex_round_plain(nq, nr, d) ==
    [q |-> PyRound(nq, d), r |-> PyRound(nr, d), s |-> PyRound(-nq - nr, d)]

\* hex_round(aq, ar, az) with aq = nq / d and ar = nr / d: the q and r of
\* the hex returned and the s the function ends with.
hex_round_qr(nq, nr, d) ==
    LET q == PyRound(nq, d)
        r == PyRound(nr, d)
        s == PyRound(-nq - nr, d)
        q_diff == Abs(q * d - nq)
        r_diff == Abs(r * d - nr)
        s_diff == Abs(s * d - (-nq - nr))
    IN  IF q_diff > r_diff /\ q_diff > s_diff THEN [q |-> -r - s, r |-> r, s |-> s]
        ELSE IF r_diff > s_diff THEN [q |-> q, r |-> -q - s, s |-> s]
        ELSE [q |-> q, r |-> r, s |-> -q - r]

\* Hx.into_px with ORIENTATION_PNTY: x = (sqrt3 q + sqrt3/2 r) * TILE_SIZE_W
\* with TILE_SIZE_W = TILE_WIDTH / sqrt3, y = 3/2 r * ISO_SCALE * TILE_SIZE.
Hx_into_px(h) ==
    <<(2 * TILE_WIDTH * h[1] + TILE_WIDTH * h[2]) \div 2, (3 * IsoSize * h[2]) \div 2, h[3]>>

\* Px.into_hx that takes the row from x.
Px_into_hx_skew(p) ==
    LET h == hex_round_qr(3 * IsoSize * p[1] - TILE_WIDTH * p[2], 2 * TILE_WIDTH * p[1], HexDen)
    IN  <<h.q, h.r, p[3]>>

\* Px.into_hx with ORIENTATION_PNTY: q = x / TILE_WIDTH - y / (3 ISO_SCALE
\* TILE_SIZE), r = 2 y / (3 ISO_SCALE TILE_SIZE), then hex_round.
Px_into_hx(p) ==
    LET h == hex_round_qr(3 * IsoSize * p[1] - TILE_WIDTH * p[2], 2 * TILE_WIDTH * p[2], HexDen)
    IN  <<h.q, h.r, p[3]>>

\* NEIGHBORS with one offset turned.
NEIGHBORS_skew ==
    <<<<1, 0, 0>>, <<1, -1, 0>>, <<0, -1, 0>>, <<-1, 0, 0>>, <<1, 1, 0>>, <<0, 1, 0>>>>

\* NEIGHBORS of Scene.py.
NEIGHBORS ==
    <<<<1, 0, 0>>, <<1, -1, 0>>, <<0, -1, 0>>, <<-1, 0, 0>>, <<-1, 1, 0>>, <<0, 1, 0>>>>

\* Hx.__add__.
Hx_add(a, b) == <<a[1] + b[1], a[2] + b[2], a[3] + b[3]>>

\* The hexes the calls below start from.
HxInputs == (-HxRange..HxRange) \X (-HxRange..HxRange) \X {0, 1}

\* h.into_px().into_hx().
RoundTripCall(h) ==
    /\ call' = [op |-> "into_px_into_hx", hx |-> h, px |-> Hx_into_px(h),
                out |-> Px_into_hx(Hx_into_px(h))]
    /\ UNCHANGED <<incoming, sessions, outgoing, seq, pcs, tiles, endVars, gen, found, edit,
                   cliVars, cin, cout, turn, left, wireVars>>

\* hex_round(nq / RoundDen, nr / RoundDen, 0).  RoundDen is a power of two:
\* these fractions, their sums and their rounding errors are floats, so
\* the code computes them exactly.
RoundCall(nq, nr) ==
    /\ call' = [op |-> "hex_round", nq |-> nq, nr |-> nr,
                out |-> hex_round_qr(nq, nr, RoundDen)]
    /\ UNCHANGED <<incoming, sessions, outgoing, seq, pcs, tiles, endVars, gen, found, edit,
                   cliVars, cin, cout, turn, left, wireVars>>

\* h + NEIGHBORS[k].
NeighborCall(h, k) ==
    /\ call' = [op |-> "neighbor", hx |-> h, k |-> k, out |-> Hx_add(h, NEIGHBORS[k])]
    /\ UNCHANGED <<incoming, sessions, outgoing, seq, pcs, tiles, endVars, gen, found, edit,
                   cliVars, cin, cout, turn, left, wireVars>>

\* ------------------------------------------------------------ specification
Next ==
    \/ \E c \in Clients : Accept(c)
    \/ \E c \in Clients : ClientBatch(c)
    \/ \E c \in Clients : ServerBatch(c)
    \/ ServerUpdate
    \/ ServerTick
    \/ \E c \in Clients : ClientDo(c)
    \/ \E c \in Clients, key \in Keys, dt \in DTs : ClientMove(c, key, dt)
    \/ \E c \in Clients, evt \in TileInputs : ClientChangeTile(c, evt)

Spec == Init /\ [][Next]_vars

\* Two clients: the second connects as well, and the run is shorter.
InitJoin ==
    Constructed([c \in Clients |-> "closed"],
                [tries |-> JoinTries, ticks |-> 0, tiles |-> 0])

\* No tile is changed in these runs, and they end before the tick updates
\* an airborne actor.
NextJoin ==
    \/ \E c \in Clients : Accept(c)
    \/ \E c \in Clients : ClientBatch(c)
    \/ \E c \in Clients : ServerBatch(c)
    \/ ServerUpdate
    \/ \E c \in Clients : ClientDo(c)
    \/ \E c \in Clients, key \in Keys, dt \in DTs : ClientMove(c, key, dt)

SpecJoin == InitJoin /\ [][NextJoin]_vars

\* A peer that is not run.py: what it writes to its socket is a try-move
\* under its own id for the actor v of another client, as it has seen it,
\* headed right.  Session.sync of the server appends whatever tuple
\* decodes (lines 54-60).
PeerForge(c, v, dt) ==
    /\ tid[c] # NoneTid
    /\ v \in DOMAIN cpcs[c]
    /\ v # tid[c]
    /\ left.tries > 0
    /\ cout' = [cout EXCEPT ![c] =
                    Session_on_send(@, tid[c],
                        ActorMoveEvent([cpcs[c][v] EXCEPT !.heading = 1], dt), NoneV)]
    /\ left' = [left EXCEPT !.tries = @ - 1]
    /\ UNCHANGED <<srvVars, cliVars, cin, turn, wireVars>>

\* Two clients, of which either may write tuples of its own making.
NextForge ==
    \/ \E c \in Clients : Accept(c)
    \/ \E c \in Clients : ClientBatch(c)
    \/ \E c \in Clients : ServerBatch(c)
    \/ ServerUpdate
    \/ \E c \in Clients : ClientDo(c)
    \/ \E c \in Clients, key \in Keys, dt \in DTs : ClientMove(c, key, dt)
    \/ \E c \in Clients, v \in Clients, dt \in DTs : PeerForge(c, v, dt)

SpecForge == InitJoin /\ [][NextForge]_vars

\* The map a server has loaded from its file: the ground, and above it a
\* decorators tile saved with flags that are not the asset's.
Saved == (<<1, 1>> :> [typ |-> "decorators", flags |-> FLAG_SOLID]) @@ Ground

\* Two clients join a server that has loaded the saved map, and change
\* tiles; no actor moves.
InitTiles ==
    ConstructedOn([c \in Clients |-> "closed"],
                  [tries |-> 0, ticks |-> 0, tiles |-> MaxTileTries], Saved, 0)

NextTiles ==
    \/ \E c \in Clients : Accept(c)
    \/ \E c \in Clients : ClientBatch(c)
    \/ \E c \in Clients : ServerBatch(c)
    \/ ServerUpdate
    \/ \E c \in Clients : ClientDo(c)
    \/ \E c \in Clients, evt \in TileInputs : ClientChangeTile(c, evt)

SpecTiles == InitTiles /\ [][NextTiles]_vars

\* Two clients connect and sessions end: the handshakes, one move, and the
\* tick polling the sessions.
InitLeave ==
    Constructed([c \in Clients |-> "closed"],
                [tries |-> LeaveTries, ticks |-> 0, tiles |-> 0])

NextLeave ==
    \/ \E c \in Clients : Accept(c)
    \/ \E c \in Clients : ClientBatch(c)
    \/ \E c \in Clients : ServerBatch(c)
    \/ ServerUpdate
    \/ \E c \in Clients : ClientDo(c)
    \/ \E c \in Clients, dt \in DTs : ClientMove(c, "RIGHT", dt)
    \/ \E c \in Clients : SessionEnd(c)
    \/ PollBegin
    \/ PollNext

SpecLeave == InitLeave /\ [][NextLeave]_vars


\* The session thread alone: no client connects.
InitWire ==
    Constructed([c \in Clients |-> "absent"], [tries |-> 0, ticks |-> 0, tiles |-> 0])

NextWire ==
    \/ \E n \in 1..MaxRead : Recv(n)
    \/ RecvClosed
    \/ RecvError
    \/ \E outcome \in SendOutcomes : SendFrame(outcome)
    \/ \E raises \in BOOLEAN : SendOK(raises)
    \/ \E e \in WireEvents : SessionSend(e)
    \/ SessionRecv
    \/ \E q \in Queues(MaxFrames) : PeerFlush(q)
    \/ PeerClose

SpecWire == InitWire /\ [][NextWire]_vars

\* The session thread with a peer whose payloads may not decode.
NextRaw ==
    \/ \E n \in 1..MaxRead : Recv(n)
    \/ RecvClosed
    \/ RecvError
    \/ \E outcome \in SendOutcomes : SendFrame(outcome)
    \/ \E raises \in BOOLEAN : SendOK(raises)
    \/ \E e \in WireEvents : SessionSend(e)
    \/ SessionRecv
    \/ \E q \in RawQueues(Payloads, MaxFrames) : PeerFlushRaw(q)
    \/ PeerClose

SpecRaw == InitWire /\ [][NextRaw]_vars

\* The scene alone: it starts empty (from_file has failed), with either
\* seed; tiles are discovered and changed.
InitDiscover ==
    \E g \in Seeds :
        ConstructedOn([c \in Clients |-> "absent"],
                      [tries |-> 0, ticks |-> 0, tiles |-> MaxEdits, discovers |-> MaxDiscovers],
                      EmptyMap, g)

NextDiscover ==
    \/ \E c \in Centres, dogs \in SUBSET DogColumns : Discover(c, dogs)
    \/ \E evt \in DiscoverEdits : EditTile(evt)

SpecDiscover == InitDiscover /\ [][NextDiscover]_vars

\* The server from before its scene is loaded: start-up, then changes to
\* the tiles.
NextStart ==
    \/ \E f \in StartFiles, dogs \in SUBSET DogColumns : StartUp(f, dogs)
    \/ call # NoCall /\ \E evt \in DiscoverEdits : EditTile(evt)
    \/ call # NoCall /\ \E dogs \in SUBSET DogColumns : Discover(<<2, -1, 0>>, dogs)

SpecStart == InitDiscover /\ [][NextStart]_vars

\* One call of the hex arithmetic.
NextHx ==
    /\ call = NoCall
    /\ \/ \E h \in HxInputs : RoundTripCall(h)
       \/ \E nq \in -RoundRange..RoundRange, nr \in -RoundRange..RoundRange : RoundCall(nq, nr)
       \/ \E h \in HxInputs, k \in DOMAIN NEIGHBORS : NeighborCall(h, k)

SpecHx == InitWire /\ [][NextHx]_vars

\* One move resolved, whatever the map, the actor and the event.
NextMove ==
    /\ call = NoCall
    /\ \E t \in MoveMaps, state \in MoveStates, ea \in MoveActors, dt \in MoveDTs :
          MoveCall(t, state, ea, dt)

SpecMove == InitWire /\ [][NextMove]_vars

\* One tuple handled by a client, whatever is pending.
NextReplay ==
    /\ call = NoCall
    /\ \E q \in ReplayQueues, m \in ReplayMsgs : DoCall(q, m)

SpecReplay == InitWire /\ [][NextReplay]_vars

\* The lengths of the payloads framed: the small ones, those around a
\* change of the first byte of the prefix, those around the value of OK
\* read as a number, and the largest two bytes hold.
FrameLengths ==
    (2..SmallLen) \cup {255, 256, 257, 20298, 20299, 20300, 65535}

\* Session.sync, lines 38-64, on a buffer that holds all a peer has
\* flushed: `before` short frames, the frame of a payload of n bytes that
\* encodes e, and OK.  What the parse appended to the inbound queue, how
\* many bytes it kept and whether it took the flush for ended are kept.
SyncCall(before, e, n) ==
    /\ LET it == Frames(before) \o to_bytes(n) \o dumps_long(e, n) \o OK
           r == Parse(it, 0, << >>)
       IN  call' = [op |-> "sync", before |-> before, evt |-> e, len |-> n,
                    events |-> r.events, kept |-> Len(r.rest), ok |-> r.ok]
    /\ UNCHANGED <<incoming, sessions, outgoing, seq, pcs, tiles, endVars, gen, found, edit,
                   cliVars, cin, cout, turn, left, wireVars>>

\* One flush parsed, whatever the length of its last frame.
NextFrame ==
    /\ call = NoCall
    /\ \E before \in {<< >>, <<1>>}, e \in WireEvents, n \in FrameLengths : SyncCall(before, e, n)

SpecFrame == InitWire /\ [][NextFrame]_vars

\* Server.on_send, line 39: the body of the loop for one session.
on_send_one(out, i, t, evt, s) ==
    [out EXCEPT ![i] = Append(@, Msg(t, evt, IF i = t THEN s ELSE NoneV))]

\* Server.on_send with broadcast set, line 38: the for statement takes an
\* iterator of self.sessions.items(), which records the size of the dict.
\* The do is that of a move tried by client t under sequence number s.
CastBegin(t, s) ==
    /\ raised = "none"
    /\ call.op = "on_send" => call.done
    /\ t \in sessions
    /\ left.tries > 0
    /\ call' = [op |-> "on_send", tid |-> t, seq |-> s,
                evt |-> ActorMoveEvent(NewActor(t, 0, 0), 20),
                size |-> Cardinality(sessions), at |-> sessions, todo |-> Ids(sessions),
                got |-> [i \in Clients |-> << >>], done |-> FALSE]
    /\ left' = [left EXCEPT !.tries = @ - 1]
    /\ UNCHANGED <<incoming, sessions, outgoing, seq, pcs, tiles, endVars, gen, found, edit,
                   cliVars, cin, cout, turn, wireVars>>

\* Lines 38-39: the iterator is advanced and the body run.  A dict whose
\* size is no longer the recorded one makes the iterator raise RuntimeError
\* (Server.accept inserts into the dict from its own thread, line 34, under
\* no lock), which ends the loop.
CastNext ==
    /\ raised = "none"
    /\ call.op = "on_send"
    /\ ~call.done
    /\ IF Cardinality(sessions) # call.size
       THEN /\ raised' = "RuntimeError"
            /\ call' = [call EXCEPT !.done = TRUE]
            /\ UNCHANGED outgoing
       ELSE IF call.todo = << >>
       THEN /\ call' = [call EXCEPT !.done = TRUE]
            /\ UNCHANGED <<raised, outgoing>>
       ELSE LET i == Head(call.todo)
            IN  /\ outgoing' = on_send_one(outgoing, i, call.tid, call.evt, call.seq)
                /\ call' = [call EXCEPT !.todo = Tail(@),
                                        !.got = on_send_one(@, i, call.tid, call.evt, call.seq)]
                /\ UNCHANGED raised
    /\ UNCHANGED <<incoming, sessions, seq, pcs, tiles, ended, unloaded, iter, gen, found, edit,
                   cliVars, cin, cout, turn, left, wireVars>>

\* The broadcast of Server.on_send at the grain of its iterator, while the
\* accept thread registers sessions.
InitCast ==
    Constructed([c \in Clients |-> "closed"], [tries |-> MaxCasts, ticks |-> 0, tiles |-> 0])

NextCast ==
    \/ \E c \in Clients : Accept(c)
    \/ \E t \in Clients, s \in 0..MaxCasts : CastBegin(t, s)
    \/ CastNext

SpecCast == InitCast /\ [][NextCast]_vars

\* The payloads of the runs below: the encoding of a tuple, and one in
\* which the bytes 4f 4b occur (a payload is pickled data: a thread ident,
\* a coordinate or a string may hold any two bytes).
TurnPayloads == {dumps(1), <<6, 79, 75>>}

\* Both threads of a connection step by step, while no socket fails: the
\* peer writes its frames one send at a time.
NextTurns ==
    \/ \E n \in 1..MaxRead : Recv(n)
    \/ SendFrame("sent")
    \/ SendOK(FALSE)
    \/ \E e \in WireEvents : SessionSend(e)
    \/ \E q \in RawQueues(TurnPayloads, MaxFrames) : PeerBegin(q)
    \/ PeerSendFrame
    \/ PeerSendOK

SpecTurns == InitWire /\ [][NextTurns]_vars

\* ------------------------------------------------------------------ claims
\* A step in which client c puts the head of its inbound queue through
\* on_do, and the tuple it handles.
DoStep(c) == cin[c] # << >> /\ cin'[c] = Tail(cin[c])
Handled(c) == Head(cin[c])
AckStep(c) == DoStep(c) /\ IsAck(tid[c], Handled(c).tid, Handled(c).seq)

\* The sequence numbers of a pending queue, head first.
Seqs(q) == [i \in 1..Len(q) |-> q[i].seq]

\* C1: after the client handles a do event carrying its own id and a
\* non-null sequence number s, no pending entry has a sequence number <= s
\* and every entry with a larger one is still pending, in the same order,
\* whether or not s was in the queue.
C1_PopKeepsNewer ==
    [][\A c \in Clients : AckStep(c) =>
          LET s == PyNum(Handled(c).seq)
              kept == SelectSeq(evt_deque[c], LAMBDA e : e.seq > s)
          IN  /\ \A i \in 1..Len(evt_deque'[c]) : evt_deque'[c][i].seq > s
              /\ Seqs(evt_deque'[c]) = Seqs(kept)]_vars

\* The state the server reaches from state by resolving and doing the
\* pending moves of q in order, each with the dt it was tried with.
RECURSIVE ServerApply(_, _, _)
ServerApply(t, state, q) ==
    IF q = << >> THEN state
    ELSE ServerApply(t,
            SetState(state, try_move_actor(t, state, Head(q).evt.actor, Head(q).evt.dt0)),
            Tail(q))

\* C2: after an acknowledgment the client's actor stands where the server
\* would put it by applying the still-pending events, in order and with
\* the dt each was sent with, to the acknowledged state.
C2_ReplayMatchesServer ==
    [][\A c \in Clients :
          (AckStep(c) /\ Handled(c).evt.event = "move_actor"
                      /\ Handled(c).evt.actor.id \in DOMAIN cpcs[c]) =>
          LET id == Handled(c).evt.actor.id
              srv == ServerApply(tiles, SetState(cpcs[c][id], Handled(c).evt.actor),
                                 evt_deque'[c])
          IN  /\ cpcs'[c][id].x = srv.x
              /\ cpcs'[c][id].z = srv.z]_vars

\* Nothing is in flight and nothing more will be sent: every queue is
\* empty and no actor of the server is airborne (an airborne one is moved
\* by the next tick).
Quiet ==
    /\ incoming = << >>
    /\ \A c \in Clients : cin[c] = << >> /\ cout[c] = << >> /\ outgoing[c] = << >>
    /\ \A i \in DOMAIN pcs : pcs[i].air_time = NoneT

\* C3: once the tries have stopped and every message in flight has been
\* delivered and handled, no event is pending on a client and the client's
\* state of its own actor is the server's state of that actor.
C3_QuiescentAgree ==
    Quiet =>
        \A c \in Clients :
            (tid[c] # NoneTid /\ tid[c] \in DOMAIN pcs) =>
                /\ evt_deque[c] = << >>
                /\ tid[c] \in DOMAIN cpcs[c]
                /\ cpcs[c][tid[c]] = pcs[tid[c]]

\* A step in which the server puts the head of its inbound queue through
\* on_try.
TryStep == incoming # << >> /\ incoming' = Tail(incoming)

IsDoMove(m, c) == m.evt.event = "move_actor" /\ m.tid = c /\ m.seq \in Nat

\* C6: handling a try-move with sequence number s from client c appends
\* exactly one tuple to c's session, and it is a do-move with sequence
\* number s.
C6_OneDoPerTry ==
    [][\A c \in Clients :
          LET old == outgoing[c]
              new == outgoing'[c]
              m == Head(incoming)
          IN  (TryStep /\ m.evt.event = "move_actor" /\ m.tid = c /\ m.seq \in Nat) =>
                  /\ Len(new) = Len(old) + 1
                  /\ SubSeq(new, 1, Len(old)) = old
                  /\ IsDoMove(new[Len(new)], c)
                  /\ new[Len(new)].seq = m.seq]_vars

C6_Witness ==
    \E c \in Clients : \E k \in 1..Len(outgoing[c]) :
        IsDoMove(outgoing[c][k], c) /\ outgoing[c][k].seq = seq /\ seq > 0

\* C7: the do events a client receives with its own id and a non-null
\* sequence number carry strictly increasing sequence numbers.
C7_AcksIncrease ==
    [][\A c \in Clients : AckStep(c) => PyNum(Handled(c).seq) > acked[c]]_vars

\* C8: a do event with a null sequence number or with another client's id
\* is dispatched to the do handlers exactly once, nothing is replayed and
\* the pending queue is left as it was.
C8_PlainDo ==
    [][\A c \in Clients :
          (DoStep(c) /\ (Handled(c).seq = NoneV \/ Handled(c).tid # tid[c])) =>
              /\ do_log'[c] = <<[event |-> Handled(c).evt.event, dt |-> Handled(c).evt.dt]>>
              /\ evt_deque'[c] = evt_deque[c]]_vars

C8_Witness ==
    \E c \in Clients :
        /\ tid[c] # NoneTid
        /\ last[c].tid # tid[c]
        /\ last[c].seq = NoneV
        /\ evt_deque[c] # << >>
        /\ Len(do_log[c]) = 1

\* C9: when the pending queue is empty after the pop, the acknowledged
\* move leaves the client's actor in exactly the state the do event
\* carries.
C9_AckIsAuthoritative ==
    [][\A c \in Clients :
          (AckStep(c) /\ Handled(c).evt.event = "move_actor" /\ evt_deque'[c] = << >>) =>
          LET a == Handled(c).evt.actor
          IN  /\ a.id \in DOMAIN cpcs'[c]
              /\ cpcs'[c][a.id] = a]_vars

C9_Witness ==
    \E c \in Clients :
        /\ IsAck(tid[c], last[c].tid, last[c].seq)
        /\ evt_deque[c] = << >>
        /\ tid[c] \in DOMAIN cpcs[c]
        /\ cpcs[c][tid[c]].x # 0
        /\ do_log[c] = <<[event |-> "move_actor", dt |-> 0]>>

\* The tuples the session has received, drained or not.
Received == drained \o sess_in

\* C4: however the bytes of a flush (well-formed frames, then OK) are cut
\* into reads, once all of them are read the session has appended to its
\* inbound queue the tuples it appends when one read returns them all.
C4_ChunksDecodeAlike ==
    (flush.bytes # << >> /\ rx = << >>) =>
        SubSeq(Received, flush.mark + 1, Len(Received))
            = Parse(flush.rest \o flush.bytes, 0, << >>).events

IsPrefix(a, b) == Len(a) <= Len(b) /\ SubSeq(b, 1, Len(a)) = a

\* C5: what the tick loop drains from a session is what the peer enqueued
\* before its flush: in the same order and without a duplicate while the
\* flush is read, and all of it once the flush is read.
C5_DrainedIsSent ==
    /\ IsPrefix(Received, sent)
    /\ rx = << >> => Received = sent

\* C10: the session thread never ends with do_exit unset.
C10_EndedSetsExit == pc = "done" => do_exit

\* A step of the tick in which session i is taken out of the session table.
PollStep(i) == i \in sessions /\ i \notin sessions'

\* C11: the tick that finds the ended flag of session i set appends one
\* unload event for i to every registered session and removes i and no
\* other session from the table; no id is unloaded twice, and the tick
\* loop is still running after it (no exception has left it).
C11_EndedIsUnloaded ==
    /\ [][\A i \in Clients : PollStep(i) =>
            /\ i \in ended
            /\ sessions' = sessions \ {i}
            /\ \A j \in sessions :
                  outgoing'[j] = Append(outgoing[j], Msg(NoneTid, ActorUnloadEvent(i), NoneV))
            /\ raised' = "none"]_vars
    /\ [](\A k, l \in 1..Len(unloaded) : unloaded[k] = unloaded[l] => k = l)
    /\ [](unloaded # << >> => raised = "none")

\* A step in which sock.recv returns bytes and they are parsed.
ReadStep == pc = "recv" /\ Len(rx') < Len(rx)

\* C12: a read whose bytes hold a frame that does not decode neither sets
\* do_exit nor ends the thread, and once a flush with such a frame is
\* read, the session has received the tuples of the frames that decode,
\* all of them and in order.
C12_MalformedSkipped ==
    /\ [][ReadStep => (do_exit' = do_exit /\ pc' # "done")]_vars
    /\ []((flush.bad > 0 /\ rx = << >>) =>
            SubSeq(Received, flush.mark + 1, Len(Received))
                = Parse(flush.bytes, 0, << >>).events)
    /\ []((flush.bad > 0 /\ rx = << >>) => Received = sent)

\* The tuple at the head of the server's inbound queue is a try-move for
\* an actor the server does not have.
UnknownTry ==
    /\ incoming # << >>
    /\ Head(incoming).evt.event = "move_actor"
    /\ Head(incoming).evt.actor.id \notin DOMAIN pcs

\* The tuple at the head of client c's inbound queue is a do-move or an
\* unload for an actor the client does not have.
UnknownDo(c) ==
    /\ cin[c] # << >>
    /\ Handled(c).evt.event \in {"move_actor", "unload_actor"}
    /\ Handled(c).evt.actor.id \notin DOMAIN cpcs[c]

\* C13: handling a try-move, a do-move or an unload that names an actor
\* absent from the actor table changes neither the actors nor the tiles,
\* sends nothing, and raises nothing out of the tick loop.
C13_UnknownActorIsNoOp ==
    /\ [][(TryStep /\ UnknownTry) =>
            /\ pcs' = pcs
            /\ tiles' = tiles
            /\ outgoing' = outgoing
            /\ raised' = "none"]_vars
    /\ [][\A c \in Clients : (DoStep(c) /\ UnknownDo(c)) =>
            /\ cpcs'[c] = cpcs[c]
            /\ ctiles'[c] = ctiles[c]
            /\ cout'[c] = cout[c]]_vars

\* C15: while no socket fails the exchange is never stuck: the session
\* thread does not wait in its read loop for bytes when it has read all
\* the peer wrote and the peer, having sent its sentinel, waits for the
\* session's.
C15_NeverStuck ==
    ~(pc = "recv" /\ rx = << >> /\ peer.open /\ ~peer.turn /\ ~do_exit)

\* C14: the two threads of a connection alternate: they are never both in
\* their send loop, and the session has written no more sentinels than
\* the peer (it writes one per sentinel of the peer it has read) and the
\* peer at most one more than the session.
C14_Alternate ==
    /\ ~(pc = "send" /\ peer.sending)
    /\ oks.self <= oks.peer
    /\ oks.peer <= oks.self + 1

\* C16: the accept thread never inserts into the session table while the
\* tick thread is in its loop over the table, and the loop never finds
\* the table changed under it.
C16_TableNotShared ==
    /\ [][iter # NoIter => sessions' \subseteq sessions]_vars
    /\ [](raised # "RuntimeError")

\* The tuples appended to session j's outbound queue by the step.
Appended(j) == SubSeq(outgoing'[j], Len(outgoing[j]) + 1, Len(outgoing'[j]))

\* The load events of the actors in ids, addressed to client c.
RECURSIVE Loads(_, _, _)
Loads(c, s, ids) ==
    IF ids = << >> THEN << >>
    ELSE <<Msg(c, ActorLoadEvent(pcs[Head(ids)].id, pcs[Head(ids)].x, pcs[Head(ids)].z), s)>>
            \o Loads(c, s, Tail(ids))

\* C17: handling client c's init_connection try appends the reply with
\* its id to c's session alone; handling its load_scene try appends the
\* snapshot and one load per existing actor to c's session alone, and the
\* only tuple any other session gets is the load of c's new actor.
C17_HandshakeToOrigin ==
    [][\A c \in Clients :
          LET m == Head(incoming)
              own == Msg(c, ActorLoadEvent(c, 0, 0), m.seq)
          IN  /\ (TryStep /\ m.tid = c /\ m.evt.event = "init_connection") =>
                    /\ Appended(c) = <<Msg(c, ConnectionInitEvent(c), m.seq)>>
                    /\ \A j \in Clients \ {c} : Appended(j) = << >>
              /\ (TryStep /\ m.tid = c /\ m.evt.event = "load_scene") =>
                    /\ Appended(c) = <<Msg(c, SceneLoadEvent(tiles), m.seq)>>
                                        \o Loads(c, m.seq, Ids(DOMAIN pcs)) \o <<own>>
                    /\ \A j \in Clients \ {c} :
                          Appended(j) = IF j \in sessions
                                        THEN <<[own EXCEPT !.seq = NoneV]>> ELSE << >>]_vars

C17_Witness ==
    \E c \in Clients, j \in Clients :
        /\ j # c
        /\ {c, j} \subseteq sessions
        /\ \E k \in 1..Len(outgoing[c]) :
              /\ outgoing[c][k].tid = c
              /\ outgoing[c][k].evt.event = "load_actor"
              /\ outgoing[c][k].evt.actor.id = j
        /\ \E k \in 1..Len(outgoing[c]) : outgoing[c][k].evt.event = "load_scene"
        /\ \A k \in 1..Len(outgoing[j]) :
              outgoing[j][k].evt.event \notin {"load_scene", "init_connection"}

\* A step that handles a discover_tile try, and the column of a hex.
DiscoverStep == found'.n = found.n + 1
Col(h) == <<h[1], h[2]>>

\* The columns within R of the centre c.
Disc(c) ==
    {col \in ((c[1] - R - 1)..(c[1] + R + 1)) \X ((c[2] - R - 1)..(c[2] + R + 1)) :
        dist(<<col[1], col[2], 0>>, c) <= R}

\* C18: after a discover_tile try for the centre c every column within R
\* of c holds a tile, every tile the discovery creates is in such a column,
\* there are 3R^2+3R+1 of them, and on an empty map the columns that hold
\* tiles afterwards are exactly those.
C18_DiscoverFillsDisc ==
    [][DiscoverStep =>
          LET c == found'.c
          IN  /\ \A col \in Disc(c) : \E h \in DOMAIN tiles' : Col(h) = col
              /\ \A h \in DOMAIN tiles' \ DOMAIN tiles : dist(h, c) <= R
              /\ Cardinality(Disc(c)) = 3 * R * R + 3 * R + 1
              /\ tiles = EmptyMap => {Col(h) : h \in DOMAIN tiles'} = Disc(c)]_vars

C18_Witness ==
    /\ found.n = 1
    /\ found.events # << >>
    /\ tiles = found.tiles
    /\ Cardinality({Col(h) : h \in DOMAIN tiles}) = 3 * R * R + 3 * R + 1

\* The tile changes among the events of the last discovery.
Changed(events) ==
    {events[k].hx : k \in {j \in DOMAIN events : events[j].event = "change_tile"}}

\* A discovery of the centre of the last one, on the map it left.
Rediscover == DiscoverStep /\ found.n > 0 /\ found'.c = found.c /\ tiles = found.tiles

\* C19: a discover_tile try emits no tile change for a hex that holds a
\* tile, so every tile on the map before it is there unchanged after it,
\* and a second discovery of the same centre emits no event and changes
\* nothing.
C19_NoRecreate ==
    [][DiscoverStep =>
          /\ Changed(found'.events) \cap DOMAIN tiles = {}
          /\ \A h \in DOMAIN tiles : h \in DOMAIN tiles' /\ tiles'[h] = tiles[h]
          /\ Rediscover => found'.events = << >> /\ tiles' = tiles]_vars

EditStep == edit'.n = edit.n + 1

\* C20: after a tile change at the hex h is applied the map holds at h
\* exactly the record the event carries, or no tile if it carries none,
\* and the tile of every other hex is as before.
C20_ChangeReplaces ==
    [][EditStep =>
          LET evt == edit'.evt
          IN  /\ IF evt.tile = NoTile THEN evt.hx \notin DOMAIN tiles'
                  ELSE evt.hx \in DOMAIN tiles' /\ tiles'[evt.hx] = evt.tile
              /\ DOMAIN tiles' \ {evt.hx} = DOMAIN tiles \ {evt.hx}
              /\ \A h \in DOMAIN tiles \ {evt.hx} : tiles'[h] = tiles[h]]_vars

\* The call studied is a move, and what the code computes on its way: the
\* hex the actor is in, the x of the step, and the first neighbour the
\* scan finds overlapping.
IsMove == call.op = "try_move_actor"
MoveHq == into_hx(call.state.x)
MoveNx == step_x(call.state.x, call.actor.heading, call.dt)
MoveFirst ==
    first_overlap(call.tiles, MoveHq, call.state.z, Max(0, Floor100(call.out.air_dz)), MoveNx)

\* C21: when the first overlapping neighbour the scan finds is in the
\* column of the heading target, the actor's x after the move is its x
\* before it.
C21_WallCancels ==
    (IsMove /\ MoveFirst # 0 /\ MoveHq + MoveFirst = MoveHq + call.actor.heading)
        => call.out.x = call.state.x

C21_Witness ==
    /\ IsMove
    /\ MoveFirst = 1
    /\ call.actor.heading = 1
    /\ MoveNx # call.state.x
    /\ call.out.x = call.state.x

\* C22: when the stored actor is on the ground and the hex it is over
\* after the step has no solid tile at its layer, the actor state
\* dispatched has air_time 0 and air_dz 0.
C22_FallStartsAtZero ==
    (IsMove /\ call.state.air_time = NoneT
            /\ ~Solid(call.tiles, into_hx(MoveNx), call.state.z))
        => (call.out.air_time = 0 /\ call.out.air_dz = 0)

\* A tile map without the hex h.
Without(t, h) == [k \in DOMAIN t \ {h} |-> t[k]]

\* C23: a tile of a neighbouring hex that is not solid has no part in the
\* x the move ends at: it is the x the same move ends at on the map
\* without that tile.
C23_OnlySolidBlocks ==
    IsMove =>
        \A h \in DOMAIN call.tiles :
            (h[1] # MoveHq /\ ~Solid(call.tiles, h[1], h[2]))
                => try_move_actor(Without(call.tiles, h), call.state, call.actor, call.dt).x
                       = call.out.x

\* The step is the start-up, and the saved scene failed to load.
StartStep == call = NoCall /\ call'.op = "from_file"
LoadFailed == call'.file.kind # "map" \/ call'.file.data = EmptyMap

C25_RoundTrip ==
    call.op = "into_px_into_hx" => call.out = call.hx

C25_Witness ==
    /\ call.op = "into_px_into_hx"
    /\ call.hx = <<-3, 5, 1>>
    /\ call.px = <<-21, 135, 1>>
    /\ call.out = call.hx

\* The roundings of the three axes of the call on their own, and their
\* errors (times RoundDen).
RoundAlone == hex_round_plain(call.nq, call.nr, RoundDen)
RoundErr ==
    [q |-> Abs(RoundAlone.q * RoundDen - call.nq),
     r |-> Abs(RoundAlone.r * RoundDen - call.nr),
     s |-> Abs(RoundAlone.s * RoundDen + call.nq + call.nr)]
RoundMoved == {a \in {"q", "r", "s"} : call.out[a] # RoundAlone[a]}

\* C26: hex_round ends with q + r + s = 0; at most one of the three is
\* not the rounding of its own axis, and that one is an axis whose
\* rounding error is the largest.
C26_CubeRound ==
    call.op = "hex_round" =>
        /\ call.out.q + call.out.r + call.out.s = 0
        /\ Cardinality(RoundMoved) <= 1
        /\ \A a \in RoundMoved : \A b \in {"q", "r", "s"} : RoundErr[a] >= RoundErr[b]

C26_Witness ==
    /\ call.op = "hex_round"
    /\ RoundMoved = {"q"}
    /\ RoundErr.q > RoundErr.r
    /\ call.out.q + call.out.r + call.out.s = 0

\* C27: h is a neighbour of each of its neighbours: some offset of
\* NEIGHBORS leads from h + N back to h.
C27_NeighborsSymmetric ==
    call.op = "neighbor" =>
        \E j \in DOMAIN NEIGHBORS : Hx_add(call.out, NEIGHBORS[j]) = call.hx

C27_Witness ==
    /\ call.op = "neighbor"
    /\ call.k = 5
    /\ call.out # call.hx
    /\ Hx_add(call.out, NEIGHBORS[2]) = call.hx

\* The call is an acknowledgment handled by the client: a do under its own
\* id with a sequence number that is not None.
IsAckCall == call.op = "on_do" /\ IsAck(1, call.msg.tid, call.msg.seq)

\* C28: while the client handles an acknowledged do, the authoritative
\* event is dispatched first, then every entry still pending after the pop
\* is dispatched as a do exactly once, in queue order, each move with
\* dt = 0; the entries replayed are the tail of the old queue and are
\* still pending afterwards.
C28_ReplayInOrder ==
    IsAckCall =>
        LET pending == call.after
            gone == Len(call.q) - Len(pending)
        IN  /\ Len(call.log) = 1 + Len(pending)
            /\ call.log[1] = [call.msg.evt EXCEPT !.dt = 0]
            /\ \A i \in 1..Len(pending) :
                  /\ call.log[i + 1] = pending[i].evt
                  /\ call.log[i + 1].event = "move_actor" => call.log[i + 1].dt = 0
            /\ gone >= 0
            /\ \A i \in 1..Len(pending) :
                  /\ pending[i].seq = call.q[gone + i].seq
                  /\ [pending[i].evt EXCEPT !.dt = 0] = [call.q[gone + i].evt EXCEPT !.dt = 0]

C28_Witness ==
    /\ IsAckCall
    /\ Len(call.after) = 2
    /\ Len(call.q) = 3
    /\ call.after[1].evt.actor.x # call.after[2].evt.actor.x
    /\ call.q[2].evt.dt = 20
    /\ call.log[2].dt = 0
    /\ call.log[2].actor.x # call.log[3].actor.x

\* A step in which client c tries a move of its own actor (sync = False),
\* and one in which it tries a tile change (sync = True).
MoveTry(c) == left'.tries = left.tries - 1 /\ tid[c] # NoneTid
TileTry(c) == left'.tiles = left.tiles - 1 /\ tid[c] # NoneTid

\* The last element of a sequence that has one.
Last(q) == q[Len(q)]

\* q2 is q1 with one element appended.
OneMore(q1, q2) == Len(q2) = Len(q1) + 1 /\ SubSeq(q2, 1, Len(q1)) = q1

\* C29: a try with sync = False runs the try handler locally (the move is
\* resolved on the client's own scene and done there), appends exactly
\* one (sequence, event) entry to the pending queue and queues exactly one
\* outbound tuple with that sequence number and that event; a try with
\* sync = True runs no local handler, leaves the pending queue and the
\* counter alone and queues the event with sequence number None.
C29_TryQueuesOnce ==
    [][\A c \in Clients :
          /\ MoveTry(c) =>
                /\ OneMore(evt_deque[c], evt_deque'[c])
                /\ OneMore(cout[c], cout'[c])
                /\ LET entry == Last(evt_deque'[c])
                       queued == Last(cout'[c])
                       old == cpcs[c][tid[c]]
                   IN  /\ entry.seq \in Nat
                       /\ queued.seq = entry.seq
                       /\ queued.evt = entry.evt
                       /\ queued.tid = tid[c]
                       /\ entry.evt.event = "move_actor"
                       /\ \E key \in Keys :
                             entry.evt.actor = try_move_actor(ctiles[c], old, KeyState(old, key),
                                                              entry.evt.dt)
                       /\ cpcs'[c][tid[c]] = SetState(old, entry.evt.actor)
          /\ TileTry(c) =>
                /\ evt_deque'[c] = evt_deque[c]
                /\ cseq'[c] = cseq[c]
                /\ cpcs'[c] = cpcs[c]
                /\ ctiles'[c] = ctiles[c]
                /\ OneMore(cout[c], cout'[c])
                /\ Last(cout'[c]).seq = NoneV
                /\ Last(cout'[c]).evt.event = "change_tile"]_vars

C29_Witness ==
    \E c \in Clients :
        /\ Len(cout[c]) >= 2
        /\ evt_deque[c] # << >>
        /\ \E k \in 1..Len(cout[c]) :
              /\ cout[c][k].seq = Last(evt_deque[c]).seq
              /\ cout[c][k].evt = Last(evt_deque[c]).evt
              /\ cout[c][k].evt.actor.x # 0
        /\ Last(cout[c]).seq = NoneV
        /\ Last(cout[c]).evt.event = "change_tile"

\* The sequence numbers of q increase strictly from head to tail.
Increasing(q) == \A i \in 1..Len(q), j \in 1..Len(q) : i < j => q[i].seq < q[j].seq

\* How many moves the clients have tried so far.
Tried == MaxTries - left.tries

\* C30: the client numbers its tries with sync = False 0, 1, 2, ..., each
\* number one greater than the one before, and in every state the
\* sequence numbers of the pending queue increase strictly from head to
\* tail.
C30_TriesNumbered ==
    [][\A c \in Clients :
          /\ Increasing(evt_deque[c])
          /\ Increasing(evt_deque'[c])
          /\ MoveTry(c) =>
                /\ Last(evt_deque'[c]).seq = Tried
                /\ Last(cout'[c]).seq = Tried
                /\ cseq'[c] = Tried
                /\ Tried > 0 => cseq[c] = Tried - 1]_vars

C30_Witness ==
    \E c \in Clients :
        /\ Len(evt_deque[c]) = 2
        /\ evt_deque[c][1].seq = 0
        /\ evt_deque[c][2].seq = 1
        /\ cseq[c] = 1
        /\ left.tries = MaxTries - 2

\* C31: when a broadcast do that originates from client c has been sent,
\* every session registered when the sending began has got exactly one
\* copy, c's own with the sequence number of the try and every other one
\* with sequence number None.
C31_BroadcastReachesAll ==
    (call.op = "on_send" /\ call.done) =>
        \A i \in call.at :
            /\ Len(call.got[i]) = 1
            /\ call.got[i][1].seq = (IF i = call.tid THEN call.seq ELSE NoneV)

\* The layers, relative to the actor's, that the landing scan of lines
\* 67-68 looks at for a stored state and a dt.
Swept(state, dt) == (Floor100(state.air_dz) + 1)..Ceil100(state.air_dz + Rise(dt))

\* C32: a resolved move takes a grounded actor into the air exactly when
\* the destination hex has no SOLID tile at the actor's layer or the event
\* carries the jump trigger (air_time = 0), and takes an airborne actor to
\* the ground exactly when it is descending and a SOLID tile is in the
\* swept layers of the destination hex; every other move leaves the actor
\* grounded or airborne as it was.
C32_AirTransitions ==
    [][LET m == Head(incoming)
           id == m.evt.actor.id
           was == pcs[id]
           now == pcs'[id]
           nq == into_hx(step_x(was.x, m.evt.actor.heading, m.evt.dt))
           takeoff == m.evt.actor.air_time = 0 \/ ~Solid(tiles, nq, was.z)
           touch == /\ was.air_dz <= 0
                    /\ \E k \in Swept(was, m.evt.dt) : Solid(tiles, nq, was.z + k)
       IN  (TryStep /\ m.evt.event = "move_actor" /\ id \in DOMAIN pcs /\ raised' = "none") =>
              IF was.air_time = NoneT
              THEN (now.air_time # NoneT) <=> takeoff
              ELSE (now.air_time = NoneT) <=> touch]_vars

\* C33: whatever the length of a payload, the receiver reads the two bytes
\* before it as its length and delivers the frame: the tuples of a flush
\* are all appended to the inbound queue, in order, nothing of it is kept
\* and its OK ends the read loop; so it is for a payload of 0x4F4B bytes.
C33_EveryLengthDelivered ==
    call.op = "sync" =>
        /\ call.events = call.before \o <<call.evt>>
        /\ call.kept = 0
        /\ call.ok

\* A step of the server's tick in which the actors are updated.
TickStep == left'.ticks = left.ticks - 1

\* C34: the do-moves the server's own actor update produces are queued for
\* every client with sequence number None, the owner of the actor
\* included, and handling one pops nothing from a client's pending queue.
C34_TickDoUnnumbered ==
    [][\A c \in Clients :
          /\ TickStep =>
                \A k \in (Len(outgoing[c]) + 1)..Len(outgoing'[c]) :
                    outgoing'[c][k].seq = NoneV
          /\ (DoStep(c) /\ Handled(c).seq = FalseV) => evt_deque'[c] = evt_deque[c]]_vars

\* C35: handling a try-move received from client c changes the server's
\* state of no actor but c's own.
C35_MovesOwnActorOnly ==
    [][LET m == Head(incoming)
       IN  (TryStep /\ m.evt.event = "move_actor") =>
              \A i \in DOMAIN pcs : i # m.tid => (i \in DOMAIN pcs' /\ pcs'[i] = pcs[i])]_vars

\* The sessions the tick has broadcast an unload for and removed.
Removed == {unloaded[k] : k \in 1..Len(unloaded)}

\* C36: the server dispatches no try of a session after it has broadcast
\* the unload for that session and removed it, and when a session is
\* removed no tuple of it is left in the shared inbound queue.
C36_NoTryAfterUnload ==
    [][/\ TryStep => Head(incoming).tid \notin Removed
       /\ \A k \in 1..Len(incoming') : incoming'[k].tid \notin {unloaded'[j] : j \in 1..Len(unloaded')}]_vars

\* C37: when the server handles the load_scene try of a joining client,
\* every actor that existed keeps its state (position, heading, air_dz,
\* air_time), and the only actor added is the joining client's.
C37_JoinKeepsActors ==
    [][LET m == Head(incoming)
       IN  (TryStep /\ m.evt.event = "load_scene" /\ raised' = "none") =>
              /\ DOMAIN pcs' = DOMAIN pcs \cup {m.tid}
              /\ \A i \in DOMAIN pcs : pcs'[i] = pcs[i]]_vars

\* Whether a queue of tuples holds an event of one of the kinds.
Holds(q, kinds) == \E k \in 1..Len(q) : q[k].evt.event \in kinds

\* Client c has processed its scene snapshot and every tile change the
\* server has sent it: it has its id, its load_scene try is no longer on
\* the way to the server, and no snapshot or tile change is on the way
\* back to it.
TilesSynced(c) ==
    /\ tid[c] # NoneTid
    /\ ~Holds(cout[c], {"load_scene"})
    /\ ~\E k \in 1..Len(incoming) : incoming[k].tid = c /\ incoming[k].evt.event = "load_scene"
    /\ ~Holds(outgoing[c], {"load_scene", "change_tile"})
    /\ ~Holds(cin[c], {"load_scene", "change_tile"})

\* C38: once a connected client has processed its snapshot and every tile
\* change sent to it, its tile map has the hexes of the server's tile
\* map, with the same sprite type and flags at each.
C38_TilesAgree == \A c \in Clients : TilesSynced(c) => ctiles[c] = tiles

C38_Witness ==
    \E c \in Clients :
        /\ TilesSynced(c)
        /\ ctiles[c] = tiles
        /\ tiles # Saved
        /\ <<1, 1>> \in DOMAIN tiles
        /\ tiles[<<1, 1>>].flags = FLAG_SOLID
        /\ left.tiles = 0

\* Positions <<x, z>> a client may report in a try-move.
Reported == {<<0, 0>>, <<30, 0>>, <<21, 1>>, <<-42, 2>>}

\* The vertical offsets (in hundredths of a layer) a client may report.
ReportedDz == {0, 100}

\* C39 as stated: the position of the do-move depends on the stored state
\* of the actor, the heading and dt of the event and the tile map and on
\* nothing else the event carries: the same try-move with any other position
\* and vertical offset reported by the client is resolved to the same
\* position.
C39_PositionFromStoredState ==
    IsMove =>
        \A p \in Reported, d \in ReportedDz :
            LET other == try_move_actor(call.tiles, call.state,
                                        [call.actor EXCEPT !.x = p[1], !.z = p[2],
                                                           !.air_dz = d], call.dt)
            IN  other.x = call.out.x /\ other.z = call.out.z

\* C39, amended: the position of the do-move does not depend on the
\* position the client reports: the same try-move with any other reported
\* position is resolved to the same position.
C39_ReportedPositionIgnored ==
    IsMove =>
        \A p \in Reported :
            LET other == try_move_actor(call.tiles, call.state,
                                        [call.actor EXCEPT !.x = p[1], !.z = p[2]], call.dt)
            IN  other.x = call.out.x /\ other.z = call.out.z

C39_Witness ==
    /\ IsMove
    /\ call.state.x # call.actor.x
    /\ call.out.x # call.state.x
    /\ call.out.x # call.actor.x
    /\ call.out.air_time # NoneT
    /\ call.tiles # EmptyMap

\* C40: resolving a move whose heading is the zero vector leaves the
\* actor's horizontal position as it was, for every dt > 0.
C40_ZeroHeadingStays ==
    (IsMove /\ call.actor.heading = 0 /\ call.dt > 0) => call.out.x = call.state.x

====
